---------------------------- MODULE Spec2Model ----------------------------
(***************************************************************************)
(* A model of the HTTP client facade of src/src/httpc.c: one request       *)
(* object (struct httpc_request) of one environment (struct httpc_env),    *)
(* the fibers that call its API and the transfer engine (libcurl driven by *)
(* curl.c) that calls its callbacks.                                       *)
(*                                                                         *)
(* Text is a sequence of one-character strings, so that prefix tests,      *)
(* number parsing and number formatting are computed character by          *)
(* character as the C library does.  Body bytes are small integers.        *)
(*                                                                         *)
(* Allocation (region_alloc, region_join, ibuf_alloc, ibuf_reserve,        *)
(* curl_slist_append, mempool_alloc) is taken to succeed: the OutOfMemory  *)
(* returns of httpc.c are not steps of this model.                         *)
(***************************************************************************)
EXTENDS Integers, Sequences, FiniteSets, TLC

VARIABLES
    req,        \* struct httpc_request (plus the method it was created with)
    env,        \* struct httpc_env: stat counters and live pool objects
    eng,        \* what the transfer engine knows about the request
    app,        \* the fiber calling new/set_*/start/finish/delete
    rd,         \* the fiber calling io_read
    wr,         \* the fiber calling io_write
    last,       \* history: the last API call, its argument, pre-state, result
    hist,       \* history: what was delivered, read, written, classified
    fib         \* test/unit/fiber.cc: the test's fiber, the fiber it made
                \* and their timers

httpcVars == <<req, env, eng, app, rd, wr, last, hist>>
vars == <<req, env, eng, app, rd, wr, last, hist, fib>>

-----------------------------------------------------------------------------
(* Bounds of the model.                                                    *)

MaxCalls == 2       \* caller set_header and set_body calls per request
MaxReqs == 2        \* requests created from one environment
MaxHdrBytes == 4    \* header bytes the engine delivers in one transfer
MaxRedirects == 2   \* redirects the engine follows
MaxBody == 4        \* body bytes the engine delivers
MaxReadLen == 3     \* largest len passed to io_read
MaxReads == 3       \* io_read calls of one transfer
MaxWrites == 2      \* io_write calls of one transfer
MaxPayload == 3     \* largest len passed to io_write
BufSize == 2        \* size of the buffer the engine passes to the upload
                    \* callback

-----------------------------------------------------------------------------
(* Text.                                                                   *)

MAX_HEADER_LEN == 8192

UPPER == <<"A","B","C","D","E","F","G","H","I","J","K","L","M",
           "N","O","P","Q","R","S","T","U","V","W","X","Y","Z">>
LOWER == <<"a","b","c","d","e","f","g","h","i","j","k","l","m",
           "n","o","p","q","r","s","t","u","v","w","x","y","z">>
DIGITS == <<"0","1","2","3","4","5","6","7","8","9">>
NUL == "NUL"

tolower(c) ==
    IF \E i \in 1..26 : UPPER[i] = c
    THEN LOWER[CHOOSE i \in 1..26 : UPPER[i] = c]
    ELSE c

isdigit(c) == \E i \in 1..10 : DIGITS[i] = c
digitval(c) == (CHOOSE i \in 1..10 : DIGITS[i] = c) - 1
isspace(c) == c = " "

HTTP_ACCEPT_HEADER == <<"A","c","c","e","p","t",":">>
HTTP_CONNECTION_HEADER == <<"C","o","n","n","e","c","t","i","o","n",":">>
HTTP_CONTENT_LENGTH_HEADER ==
    <<"C","o","n","t","e","n","t","-","L","e","n","g","t","h",":">>
HTTP_KEEP_ALIVE_HEADER == <<"K","e","e","p","-","A","l","i","v","e",":">>

(* A header line: `text` followed by `pad` filler characters "x" (a long   *)
(* line is kept run-length encoded).                                       *)
Line(text, pad) == [text |-> text, pad |-> pad]
LineLen(l) == Len(l.text) + l.pad
CharAt(l, i) ==
    IF i <= Len(l.text) THEN l.text[i]
    ELSE IF i <= LineLen(l) THEN "x"
    ELSE NUL

(* strncasecmp(header, prefix, strlen(prefix)) == 0 *)
strncasecmp0(l, prefix) ==
    \A i \in 1..Len(prefix) : tolower(CharAt(l, i)) = tolower(prefix[i])

RECURSIVE SkipSpace(_, _)
SkipSpace(l, i) == IF isspace(CharAt(l, i)) THEN SkipSpace(l, i + 1) ELSE i

RECURSIVE ScanDigits(_, _, _)
ScanDigits(l, i, acc) ==
    IF isdigit(CharAt(l, i))
    THEN ScanDigits(l, i + 1, [val |-> acc.val * 10 + digitval(CharAt(l, i)),
                               end |-> i + 1])
    ELSE acc

(* strtol(header + start - 1, &end, 10): white space, an optional sign,    *)
(* digits; with no digit nothing is converted, the value is 0 and end is   *)
(* the start.  The digit strings of the model are short: no overflow.      *)
strtol(l, start) ==
    LET i0 == SkipSpace(l, start)
        neg == CharAt(l, i0) = "-"
        i1 == IF CharAt(l, i0) \in {"-", "+"} THEN i0 + 1 ELSE i0
        d == ScanDigits(l, i1, [val |-> 0, end |-> i1])
    IN  IF d.end = i1
        THEN [val |-> 0, end |-> start]
        ELSE [val |-> IF neg THEN 0 - d.val ELSE d.val, end |-> d.end]

RECURSIVE DecimalOf(_)
DecimalOf(n) ==
    IF n < 10 THEN <<DIGITS[n + 1]>>
    ELSE Append(DecimalOf(n \div 10), DIGITS[(n % 10) + 1])

(* The lines httpc_request_start formats. *)
AcceptAnyLine == Line(<<"A","c","c","e","p","t",":"," ","*","/","*">>, 0)
ConnectionLine(keep) ==
    Line(HTTP_CONNECTION_HEADER \o
         (IF keep THEN <<" ","K","e","e","p","-","A","l","i","v","e">>
                  ELSE <<" ","c","l","o","s","e">>), 0)
KeepAliveLine(t) ==
    Line(HTTP_KEEP_ALIVE_HEADER \o <<" ","t","i","m","e","o","u","t","=">>
         \o DecimalOf(t), 0)

-----------------------------------------------------------------------------
(* The request object.                                                     *)

NoReq == [live |-> FALSE]

(* strcmp(a, b): zero exactly when the strings are equal. *)
strcmp(a, b) == IF a = b THEN 0 ELSE 1

(* The test of httpc_request_new that selects the POST-shaped branch; in C *)
(* an int is true when it is not zero, and the third strcmp is not         *)
(* compared with 0.                                                        *)
IsPostBranch(method) ==
    \/ strcmp(method, "POST") = 0
    \/ strcmp(method, "PUT") = 0
    \/ strcmp(method, "PATCH") # 0

(* httpc_request_new, after curl_request_create succeeded. *)
httpc_request_new(method) ==
    [live |-> TRUE,
     method |-> method,
     headers |-> <<>>,
     send |-> <<>>,
     recv |-> <<>>,
     io_recv |-> <<>>,
     resp_headers |-> <<>>,
     redirect_count |-> 0,
     io |-> FALSE,
     io_send |-> FALSE,
     io_send_closed |-> FALSE,
     io_headers_cond |-> "none",
     content_length |-> -1,
     keep_alive_timeout |-> 0,
     tcp_keepalive |-> <<>>,    \* CURLOPT_TCP_KEEPALIVE, _KEEPIDLE and
                                \* _KEEPINTVL as set by the client, if set
     set_accept_header |->
        IF strcmp(method, "GET") = 0 THEN FALSE
        ELSE IF strcmp(method, "HEAD") = 0 THEN FALSE
        ELSE IF IsPostBranch(method) THEN TRUE
        ELSE FALSE,
     set_connection_header |-> TRUE,
     set_keep_alive_header |-> TRUE,
     status |-> 0,
     reason |-> "NULL",
     in_progress |-> FALSE,
     code |-> "CURLE_OK"]

(* httpc_set_header: the request after the call and its return value. *)
httpc_set_header(r, l) ==
    IF LineLen(l) > MAX_HEADER_LEN
    THEN [req |-> r, rc |-> -1, err |-> "IllegalParams"]
    ELSE IF strncasecmp0(l, HTTP_ACCEPT_HEADER)
    THEN [req |-> [r EXCEPT !.set_accept_header = FALSE,
                            !.headers = Append(@, l)],
          rc |-> 0, err |-> "none"]
    ELSE IF strncasecmp0(l, HTTP_CONNECTION_HEADER)
    THEN [req |-> [r EXCEPT !.set_connection_header = FALSE,
                            !.headers = Append(@, l)],
          rc |-> 0, err |-> "none"]
    ELSE IF strncasecmp0(l, HTTP_CONTENT_LENGTH_HEADER)
    THEN LET n == strtol(l, Len(HTTP_CONTENT_LENGTH_HEADER) + 1)
         IN  IF CharAt(l, n.end) # NUL \/ n.val < 0
             THEN [req |-> r, rc |-> -1, err |-> "IllegalParams"]
             ELSE [req |-> [r EXCEPT !.content_length = n.val,
                                     !.headers = Append(@, l)],
                   rc |-> 0, err |-> "none"]
    ELSE IF strncasecmp0(l, HTTP_KEEP_ALIVE_HEADER)
    THEN [req |-> [r EXCEPT !.set_keep_alive_header = FALSE,
                            !.headers = Append(@, l)],
          rc |-> 0, err |-> "none"]
    ELSE [req |-> [r EXCEPT !.headers = Append(@, l)],
          rc |-> 0, err |-> "none"]

(* httpc_set_keepalive (libcurl >= 7.25.0). *)
httpc_set_keepalive_idle(r, idle, interval) ==
    IF idle > 0
    THEN [r EXCEPT !.tcp_keepalive = <<1, idle, interval>>,
                   !.keep_alive_timeout = idle]
    ELSE r
httpc_set_keepalive(r, idle, interval) ==
    IF idle > 0 /\ interval > 0
    THEN [r EXCEPT !.tcp_keepalive = <<1, idle, interval>>,
                   !.keep_alive_timeout = idle]
    ELSE r

(* The first part of httpc_request_start: the automatic headers, each step *)
(* applied to the result of the one before (start returns at the first     *)
(* call that fails).                                                       *)
Only(S) == CHOOSE x \in S : TRUE
StartAccept(r) ==
    IF r.set_accept_header
    THEN httpc_set_header(r, AcceptAnyLine)
    ELSE [req |-> r, rc |-> 0, err |-> "none"]
StartConnectionAlways(a) ==
    IF a.rc = 0
    THEN httpc_set_header(a.req, ConnectionLine(a.req.keep_alive_timeout > 0))
    ELSE a
StartConnection(a) ==
    IF a.rc = 0 /\ a.req.set_connection_header
    THEN httpc_set_header(a.req, ConnectionLine(a.req.keep_alive_timeout > 0))
    ELSE a
StartKeepAlive(c) ==
    IF c.rc = 0 /\ c.req.set_keep_alive_header /\ c.req.keep_alive_timeout > 0
    THEN httpc_set_header(c.req, KeepAliveLine(c.req.keep_alive_timeout))
    ELSE c
StartHeaders(r) ==
    Only({StartKeepAlive(c) :
            c \in {StartConnection(a) : a \in {StartAccept(r)}}})

-----------------------------------------------------------------------------
(* Condition variables and the engine.                                     *)

NoWake == "none"

(* The condition variable a parked fiber sleeps on. *)
AppCond(a, r) ==
    IF a.pc = "start_wait" THEN r.io_headers_cond
    ELSE IF a.pc = "finish_wait" THEN "done"
    ELSE "none"
RdCond(f) == IF f.pc = "read_wait" THEN "recv" ELSE "none"
WrCond(f) ==
    IF f.pc \in {"write_wait1", "write_wait2", "write_wait3"} THEN "send"
    ELSE "none"

(* A wait of a fiber that has been cancelled ends at once, with an error. *)
ParkWake(f) == IF f.cancelled THEN "cancel" ELSE NoWake

(* fiber_cond_broadcast(c): every fiber sleeping on c becomes ready. *)
BroadcastApp(c, a, r) ==
    IF AppCond(a, r) = c /\ a.wake = NoWake THEN [a EXCEPT !.wake = "signal"]
    ELSE a
BroadcastRd(c, f) ==
    IF RdCond(f) = c /\ f.wake = NoWake THEN [f EXCEPT !.wake = "signal"]
    ELSE f
BroadcastWr(c, f) ==
    IF WrCond(f) = c /\ f.wake = NoWake THEN [f EXCEPT !.wake = "signal"]
    ELSE f

EngInit ==
    [added |-> FALSE,       \* the handle is in the multi handle
     redirect |-> 0,        \* CURLINFO_REDIRECT_COUNT
     hopHdrs |-> 0,         \* header callbacks of the current response
     hdrs |-> 0,            \* header bytes handed over so far
     body |-> 0,            \* body bytes handed over so far
     respCode |-> 0,        \* CURLINFO_RESPONSE_CODE
     paused |-> FALSE,      \* the upload is paused (CURL_READFUNC_PAUSE)
     eof |-> FALSE,         \* the upload callback returned 0
     resumes |-> 0]         \* curl_easy_pause(CURLPAUSE_SEND_CONT) calls

StatInit == [total |-> 0, http_200 |-> 0, http_other |-> 0, failed |-> 0]

AppInit ==
    [pc |-> "none", wake |-> NoWake, ctx |-> "none", rc |-> 0,
     made |-> 0, calls |-> 0]
RdInit ==
    [pc |-> "idle", wake |-> NoWake, len |-> 0, ret |-> 0, calls |-> 0,
     cancelled |-> FALSE,
     fromIo |-> 0,          \* bytes the last call copied out of io_recv
     illegal |-> FALSE]     \* the last call failed with IllegalParams
WrInit ==
    [pc |-> "idle", wake |-> NoWake, payload |-> <<>>, tmo |-> FALSE,
     ret |-> 0, calls |-> 0, offered |-> 0,
     cancelled |-> FALSE,
     illegal |-> FALSE,     \* the last call failed with IllegalParams
     late |-> FALSE]        \* the deadline of the call passed while the
                            \* fiber slept in a wait that has no deadline
LastInit == [op |-> "none"]
HistInit ==
    [hdrLog |-> <<>>,       \* header bytes accepted, each with its hop
     readOut |-> <<>>,      \* bytes returned by io_read calls, in order
     wire |-> <<>>,         \* bytes the upload callback handed to the engine
     accepted |-> <<>>,     \* payloads of io_write calls that returned len
     rejected |-> {},       \* bytes of io_write calls that returned 0 or -1
     lateWrites |-> 0,      \* io_write calls made after the upload was closed
     set |-> {},            \* lines the caller's set_header calls set
     finOk |-> FALSE,       \* a finish call on this request returned 0
     startRc |-> 1,         \* what start returned (1: it has not yet)
     callerFin |-> 0,       \* finish calls made after start had returned
     counted |-> FALSE,     \* start of this request incremented total
     ends |-> [ok200 |-> 0, okOther |-> 0, failed |-> 0]]

(* test/unit/fiber.cc before a test function runs: the test's fiber runs   *)
(* and has made no fiber yet. A timer is the number of ticks it has left,  *)
(* NoTimer when it is not set; a tick is the 0.001 s of cancel_f's sleep.  *)
NoTimer == -1

(* cord_cojoin_test before it runs: no cord started, no fiber made. *)
CordInit == [st |-> "none", fn |-> "none", ret |-> 0, diag |-> FALSE]
CoInit ==
    [pc |-> "run",          \* the test's fiber: run, cojoin (in the yield of
                            \* cord_cojoin) or end
     idx |-> 0,             \* the cord being joined, 1 or 2
     ready |-> FALSE,       \* the test's fiber was woken and has not run yet
     cords |-> <<CordInit, CordInit>>,
     waker |-> "none",      \* the fiber of waker_f: none, ready or dead
     res |-> <<>>,          \* history: for each cord_cojoin that returned,
                            \* its result and whether the function of the
                            \* cord had completed by then
     woken |-> 0]           \* history: wakeups of the test's fiber by
                            \* waker_f while it was in cord_cojoin

FibInit ==
    [co |-> CoInit,
     round |-> 0,           \* fibers made and joined so far
     pc |-> "run",          \* the test's fiber: run, wait (in
                            \* fiber_wait_on_deadline) or join (in fiber_join)
     ready |-> FALSE,       \* the test's fiber was woken and has not run yet
     timer |-> NoTimer,     \* the timer of its wait
     timed_out |-> FALSE,   \* that timer has fired
     pokes |-> 0,           \* fiber_cancel and fiber_wakeup calls the test
                            \* made on the fiber
     waited |-> FALSE,      \* history: fiber_join of the last fiber yielded
     f |-> [st |-> "none",  \* none, ready, sleeping or dead
            body |-> "none",
            pc |-> "entry", \* entry: not run yet; slept: in fiber_sleep
            timer |-> NoTimer,
            cancelled |-> FALSE,
            runs |-> 0],    \* history: times its function was entered
     obs |-> [body |-> "none", exceeded |-> FALSE, dead |-> FALSE,
              joined |-> FALSE]]
                            \* history: the last fiber_wait_on_deadline that
                            \* returned: the function of the fiber waited
                            \* for, the result, fiber_is_dead(f) right after
                            \* it, and whether fiber_join has returned since

Init ==
    /\ fib = FibInit
    /\ req = NoReq
    /\ env = [stat |-> StatInit, pool |-> 0]
    /\ eng = EngInit
    /\ app = AppInit
    /\ rd = RdInit
    /\ wr = WrInit
    /\ last = LastInit
    /\ hist = HistInit

-----------------------------------------------------------------------------
(* Creation and configuration.                                             *)

Methods == {"GET", "HEAD", "POST", "PUT", "PATCH", "DELETE"}

(* httpc_request_new.  When curl_request_create fails the function returns *)
(* NULL and the pool object stays allocated.                               *)
New(method, createOk, limit) ==
    /\ app.pc = "none"
    /\ app.made < limit
    /\ env' = [env EXCEPT !.pool = @ + 1]
    /\ req' = IF createOk THEN httpc_request_new(method) ELSE NoReq
    /\ app' = [app EXCEPT !.pc = IF createOk THEN "new" ELSE "none",
                          !.made = @ + 1, !.calls = 0, !.rc = 0]
    /\ eng' = EngInit
    /\ last' = [op |-> "new", arg |-> method, ok |-> createOk]
    /\ hist' = [HistInit EXCEPT !.ends = hist.ends]
    /\ rd' = RdInit
    /\ wr' = WrInit
    /\ UNCHANGED fib

SetHeader(l) ==
    /\ app.pc = "new"
    /\ app.calls < MaxCalls
    /\ LET res == httpc_set_header(req, l)
       IN  /\ req' = res.req
           /\ last' = [op |-> "set_header", arg |-> l, pre |-> req,
                       rc |-> res.rc, err |-> res.err]
           /\ hist' = IF res.rc = 0 THEN [hist EXCEPT !.set = @ \cup {l}]
                      ELSE hist
    /\ app' = [app EXCEPT !.calls = @ + 1]
    /\ UNCHANGED <<env, eng, rd, wr>>
    /\ UNCHANGED fib

SetKeepalive(idle, interval) ==
    /\ app.pc = "new"
    /\ req' = httpc_set_keepalive(req, idle, interval)
    /\ last' = [op |-> "set_keepalive", arg |-> <<idle, interval>>,
                pre |-> req]
    /\ UNCHANGED <<env, eng, app, rd, wr, hist>>
    /\ UNCHANGED fib

httpc_set_io_recv(r, method) ==
    IF r.io
    THEN [req |-> r, rc |-> -1, err |-> "IllegalParams"]
    ELSE IF strcmp(method, "POST") = 0 \/ strcmp(method, "PUT") = 0
            \/ strcmp(method, "PATCH") = 0
    THEN [req |-> [r EXCEPT !.io = TRUE, !.io_recv = <<>>,
                            !.io_send = TRUE, !.io_send_closed = FALSE,
                            !.io_headers_cond = "recv"],
          rc |-> 0, err |-> "none"]
    ELSE [req |-> [r EXCEPT !.io = TRUE, !.io_recv = <<>>,
                            !.io_send = FALSE, !.io_send_closed = TRUE,
                            !.io_headers_cond = "recv"],
          rc |-> 0, err |-> "none"]

(* httpc_set_io. *)
httpc_set_io_again(r, method) ==
    IF strcmp(method, "POST") = 0 \/ strcmp(method, "PUT") = 0
       \/ strcmp(method, "PATCH") = 0
    THEN [req |-> [r EXCEPT !.io = TRUE, !.io_recv = <<>>,
                            !.io_send = TRUE, !.io_send_closed = FALSE,
                            !.io_headers_cond = "send"],
          rc |-> 0, err |-> "none"]
    ELSE [req |-> [r EXCEPT !.io = TRUE, !.io_recv = <<>>,
                            !.io_send = FALSE, !.io_send_closed = TRUE,
                            !.io_headers_cond = "recv"],
          rc |-> 0, err |-> "none"]
httpc_set_io(r, method) ==
    IF r.io
    THEN [req |-> r, rc |-> -1, err |-> "IllegalParams"]
    ELSE IF strcmp(method, "POST") = 0 \/ strcmp(method, "PUT") = 0
            \/ strcmp(method, "PATCH") = 0
    THEN [req |-> [r EXCEPT !.io = TRUE, !.io_recv = <<>>,
                            !.io_send = TRUE, !.io_send_closed = FALSE,
                            !.io_headers_cond = "send"],
          rc |-> 0, err |-> "none"]
    ELSE [req |-> [r EXCEPT !.io = TRUE, !.io_recv = <<>>,
                            !.io_send = FALSE, !.io_send_closed = TRUE,
                            !.io_headers_cond = "recv"],
          rc |-> 0, err |-> "none"]

SetIoCall(method) ==
    /\ LET res == httpc_set_io(req, method)
       IN  /\ req' = res.req
           /\ last' = [op |-> "set_io", arg |-> method, pre |-> req,
                       rc |-> res.rc, err |-> res.err]
    /\ UNCHANGED <<env, eng, app, rd, wr, hist>>
    /\ UNCHANGED fib

(* httpc_set_io called before the request is started. *)
SetIo(method) ==
    /\ app.pc = "new"
    /\ SetIoCall(method)

(* httpc_set_io called once more, on a streaming request already started. *)
SetIoAgain(method) ==
    /\ app.pc = "started"
    /\ req.io
    /\ SetIoCall(method)


-----------------------------------------------------------------------------
(* Start, finish and the classification of the outcome.                    *)

TermCodes ==
    {"CURLE_OK", "CURLE_SSL_CACERT", "CURLE_PEER_FAILED_VERIFICATION",
     "CURLE_OPERATION_TIMEDOUT", "CURLE_GOT_NOTHING",
     "CURLE_COULDNT_RESOLVE_PROXY", "CURLE_COULDNT_RESOLVE_HOST",
     "CURLE_COULDNT_CONNECT", "CURLE_WRITE_ERROR",
     "CURLE_BAD_CONTENT_ENCODING", "CURLE_OUT_OF_MEMORY",
     "CURLE_SEND_ERROR"}

(* Values CURLINFO_RESPONSE_CODE takes for a transfer that ended CURLE_OK: *)
(* 0 when no response code was received, else the three digits the server  *)
(* sent.                                                                   *)
RespCodes == {0, 100, 200, 399, 400, 599, 600}

curl_easy_strerror(code) == <<"strerror", code>>

(* The reason of a transfer that ended CURLE_OK. *)
OkReasonNull(status) ==
    IF status >= 100 /\ status < 400 THEN "Ok" ELSE "NULL"
OkReason(status) ==
    IF status >= 100 /\ status < 400 THEN "Ok" ELSE "Unknown"

(* The synthetic status of a classified failure; 0 for the terminal codes  *)
(* finish reports as an error.                                             *)
SyntheticStatusShifted(code) ==
    IF code \in {"CURLE_SSL_CACERT", "CURLE_PEER_FAILED_VERIFICATION"}
    THEN 495
    ELSE IF code \in {"CURLE_OPERATION_TIMEDOUT", "CURLE_GOT_NOTHING"}
    THEN 408
    ELSE IF code \in {"CURLE_COULDNT_RESOLVE_PROXY",
                      "CURLE_COULDNT_RESOLVE_HOST", "CURLE_COULDNT_CONNECT",
                      "CURLE_WRITE_ERROR", "CURLE_BAD_CONTENT_ENCODING"}
    THEN 595
    ELSE 0
SyntheticStatus(code) ==
    IF code \in {"CURLE_SSL_CACERT", "CURLE_PEER_FAILED_VERIFICATION"}
    THEN 495
    ELSE IF code = "CURLE_OPERATION_TIMEDOUT" THEN 408
    ELSE IF code = "CURLE_GOT_NOTHING" THEN 444
    ELSE IF code \in {"CURLE_COULDNT_RESOLVE_PROXY",
                      "CURLE_COULDNT_RESOLVE_HOST", "CURLE_COULDNT_CONNECT",
                      "CURLE_WRITE_ERROR", "CURLE_BAD_CONTENT_ENCODING"}
    THEN 595
    ELSE 0

(* httpc_request_finish after curl_request_finish returned CURLM_OK: the   *)
(* request, the counters and the return value.  ERROR_INJECT_RETURN        *)
(* returns -1 when the injection is switched on.                           *)
FinishClassify(r, stat, respCode, errinj) ==
    IF errinj
    THEN [req |-> r, stat |-> stat, rc |-> -1]
    ELSE IF r.code = "CURLE_OK"
    THEN [req |-> [r EXCEPT !.status = respCode,
                            !.reason = OkReason(respCode)],
          stat |-> IF respCode = 200
                   THEN [stat EXCEPT !.http_200 = @ + 1]
                   ELSE [stat EXCEPT !.http_other = @ + 1],
          rc |-> 0]
    ELSE IF SyntheticStatus(r.code) # 0
    THEN [req |-> [r EXCEPT !.status = SyntheticStatus(r.code),
                            !.reason = curl_easy_strerror(r.code)],
          stat |-> [stat EXCEPT !.failed = @ + 1], rc |-> 0]
    ELSE [req |-> r, stat |-> [stat EXCEPT !.failed = @ + 1], rc |-> -1]

(* curl_request_start of curl.c: marks the transfer in progress and adds   *)
(* the handle to the multi handle, which may refuse it.                    *)
curl_request_start(r, e, mOk) ==
    [req |-> [r EXCEPT !.in_progress = TRUE],
     eng |-> [e EXCEPT !.added = mOk],
     mcode |-> IF mOk THEN "CURLM_OK" ELSE "CURLM_ERROR"]

(* curl_request_finish of curl.c after its wait: a wait that timed out (or *)
(* a cancelled fiber) makes the terminal code CURLE_OPERATION_TIMEDOUT;    *)
(* the handle is removed from the multi handle, which may fail.            *)
curl_request_finish(r, e, wake, mOk) ==
    [req |-> IF wake \in {"timeout", "cancel"}
             THEN [r EXCEPT !.code = "CURLE_OPERATION_TIMEDOUT"]
             ELSE r,
     eng |-> [e EXCEPT !.added = FALSE],
     mcode |-> IF mOk THEN "CURLM_OK" ELSE "CURLM_ERROR"]

(* What the caller's return from start or finish leaves in the history. *)
Returned(h, rc) == [h EXCEPT !.finOk = @ \/ rc = 0]
StartReturned(h, rc) == [h EXCEPT !.startRc = rc]

(* httpc_execute after httpc_request_start returned ret: a failure is      *)
(* returned as it is, else httpc_request_finish is called.                 *)
AfterStartAlways(ret) == "started"
AfterStart(ret) == IF ret # 0 THEN "failed" ELSE "started"

(* The rest of httpc_request_finish once curl_request_finish is over, and  *)
(* the return to whoever called it: finish itself (ctx "finish"), start    *)
(* after its wait timed out (ctx "start_timeout": the result is dropped    *)
(* and start returns -1) or start for a transfer already complete (ctx     *)
(* "start_done": start returns the result).                                *)
FinishTail(r, e, wake, mOk, errinj, ctx) ==
    LET f == curl_request_finish(r, e, wake, mOk)
        c == IF f.mcode # "CURLM_OK"
             THEN [req |-> f.req, stat |-> env.stat, rc |-> -1]
             ELSE FinishClassify(f.req, env.stat, f.eng.respCode, errinj)
    IN  /\ req' = c.req
        /\ env' = [env EXCEPT !.stat = c.stat]
        /\ eng' = f.eng
        /\ hist' = IF ctx = "finish"
                   THEN [Returned(hist, c.rc) EXCEPT !.callerFin = @ + 1]
                   ELSE IF ctx = "io_finish"
                   THEN Returned(hist, c.rc)
                   ELSE IF ctx = "start_timeout"
                   THEN StartReturned(Returned(hist, c.rc), -1)
                   ELSE StartReturned(Returned(hist, c.rc), c.rc)
        /\ last' = [op |-> "finish", pre |-> f.req, rc |-> c.rc,
                    mcode |-> f.mcode, errinj |-> errinj,
                    respCode |-> f.eng.respCode]
        /\ app' = [app EXCEPT
                     !.wake = NoWake, !.ctx = "none",
                     !.rc = IF ctx = "start_timeout" THEN -1 ELSE c.rc,
                     !.pc = IF ctx \in {"finish", "io_finish"} THEN "done"
                            ELSE IF ctx = "start_timeout" THEN AfterStart(-1)
                            ELSE AfterStart(c.rc)]

(* httpc_request_finish up to the wait of curl_request_finish: a transfer  *)
(* in progress parks the caller on the request's completion condition.     *)
FinishEnter(r, e, mOk, errinj, ctx) ==
    IF r.in_progress
    THEN /\ req' = r
         /\ eng' = e
         /\ app' = [app EXCEPT !.pc = "finish_wait", !.wake = NoWake,
                               !.ctx = ctx]
         /\ UNCHANGED <<env, hist, last>>
    ELSE FinishTail(r, e, "signal", mOk, errinj, ctx)

(* httpc_request_start up to its first suspension. *)
Start(mOk) ==
    /\ app.pc = "new"
    /\ LET h == StartHeaders(req)
       IN  IF h.rc # 0
           THEN /\ req' = h.req
                /\ app' = [app EXCEPT !.pc = AfterStart(-1), !.rc = -1]
                /\ last' = [op |-> "start", pre |-> req, rc |-> -1]
                /\ hist' = StartReturned(hist, -1)
                /\ UNCHANGED <<env, eng>>
           ELSE LET s == curl_request_start(h.req, eng, mOk)
                    counted == [env EXCEPT !.stat.total = @ + 1]
                IN  IF s.mcode # "CURLM_OK"
                    THEN /\ req' = s.req
                         /\ eng' = s.eng
                         /\ env' = counted
                         /\ app' = [app EXCEPT !.pc = AfterStart(-1),
                                               !.rc = -1]
                         /\ last' = [op |-> "start", pre |-> req, rc |-> -1]
                         /\ hist' = StartReturned(
                                       [hist EXCEPT !.counted = TRUE], -1)
                    ELSE IF s.req.io /\ s.req.in_progress
                    THEN /\ req' = s.req
                         /\ eng' = s.eng
                         /\ env' = counted
                         /\ app' = [app EXCEPT !.pc = "start_wait",
                                               !.wake = NoWake]
                         /\ last' = [op |-> "start", pre |-> req]
                         /\ hist' = [hist EXCEPT !.counted = TRUE]
                    ELSE /\ req' = s.req
                         /\ eng' = s.eng
                         /\ env' = counted
                         /\ app' = [app EXCEPT !.pc = AfterStart(0), !.rc = 0]
                         /\ last' = [op |-> "start", pre |-> req, rc |-> 0]
                         /\ hist' = StartReturned(
                                       [hist EXCEPT !.counted = TRUE], 0)
    /\ UNCHANGED <<rd, wr>>
    /\ UNCHANGED fib

(* httpc_request_start after fiber_cond_wait_timeout on io_headers_cond. *)
StartResume(mOk, errinj) ==
    /\ app.pc = "start_wait"
    /\ app.wake # NoWake
    /\ IF app.wake \in {"timeout", "cancel"}
       THEN FinishEnter(req, eng, mOk, errinj, "start_timeout")
       ELSE IF req.io /\ ~req.in_progress
       THEN FinishEnter(req, eng, mOk, errinj, "start_done")
       ELSE /\ app' = [app EXCEPT !.pc = AfterStart(0), !.wake = NoWake,
                                  !.rc = 0]
            /\ last' = [op |-> "start", pre |-> req, rc |-> 0]
            /\ hist' = StartReturned(hist, 0)
            /\ UNCHANGED <<req, env, eng>>
    /\ UNCHANGED <<rd, wr>>
    /\ UNCHANGED fib

(* The caller calls httpc_request_finish after start returned 0. *)
Finish(mOk, errinj) ==
    /\ app.pc = "started"
    /\ FinishEnter(req, eng, mOk, errinj, "finish")
    /\ UNCHANGED <<rd, wr>>
    /\ UNCHANGED fib

(* httpc_request_finish after the wait of curl_request_finish. *)
FinishResume(mOk, errinj) ==
    /\ app.pc = "finish_wait"
    /\ app.ctx # "io_finish"
    /\ app.wake # NoWake
    /\ FinishTail(req, eng, app.wake, mOk, errinj, app.ctx)
    /\ UNCHANGED <<rd, wr>>
    /\ UNCHANGED fib

(* A wait with a timeout or a deadline ends because the time is up. *)
AppTimeout ==
    /\ app.pc \in {"start_wait", "finish_wait"}
    /\ app.wake = NoWake
    /\ app' = [app EXCEPT !.wake = "timeout"]
    /\ UNCHANGED <<req, env, eng, rd, wr, last, hist>>
    /\ UNCHANGED fib

(* The engine ends the transfer (curl.c on CURLMSG_DONE): the terminal     *)
(* code is stored, in_progress is cleared, the completion condition is     *)
(* signalled and the done handler, if any, is called.                      *)
httpc_curl_done_handler(r) == [r EXCEPT !.io_send_closed = TRUE]

EngineDone(code, respCode) ==
    /\ req.live /\ req.in_progress /\ eng.added
    /\ LET r1 == [req EXCEPT !.in_progress = FALSE, !.code = code]
           a1 == BroadcastApp("done", app, req)
       IN  IF req.io
           THEN /\ req' = httpc_curl_done_handler(r1)
                /\ app' = BroadcastApp("send",
                              BroadcastApp("recv", a1, req), req)
                /\ rd' = BroadcastRd("recv", rd)
                /\ wr' = BroadcastWr("send", wr)
           ELSE /\ req' = r1
                /\ app' = a1
                /\ UNCHANGED <<rd, wr>>
    /\ eng' = [eng EXCEPT !.respCode = respCode]
    /\ UNCHANGED <<env, last, hist>>
    /\ UNCHANGED fib

(* How the run of a request ended, for the batch tally: by the return      *)
(* value of its last call and the engine's terminal code.                  *)
RunEnd(h, a, r, e) ==
    IF ~h.counted THEN h.ends
    ELSE IF a.rc # 0 THEN [h.ends EXCEPT !.failed = @ + 1]
    ELSE IF r.code = "CURLE_OK" /\ e.respCode = 200
    THEN [h.ends EXCEPT !.ok200 = @ + 1]
    ELSE IF r.code = "CURLE_OK" THEN [h.ends EXCEPT !.okOther = @ + 1]
    ELSE [h.ends EXCEPT !.failed = @ + 1]

(* httpc_request_delete, once the run of the request is over. *)
Delete ==
    /\ app.pc \in {"done", "failed"}
    /\ rd.pc = "idle" /\ wr.pc = "idle"
    /\ req' = NoReq
    /\ env' = [env EXCEPT !.pool = @ - 1]
    /\ eng' = EngInit
    /\ app' = [app EXCEPT !.pc = "none", !.wake = NoWake, !.ctx = "none"]
    /\ hist' = [HistInit EXCEPT !.ends = RunEnd(hist, app, req, eng)]
    /\ last' = [op |-> "delete"]
    /\ UNCHANGED <<rd, wr>>
    /\ UNCHANGED fib


-----------------------------------------------------------------------------
(* Configuration of one request up to start.                               *)

XLine == <<"X",":","y">>
ConnLine == HTTP_CONNECTION_HEADER \o <<"x">>

CallerLines ==
    { Line(HTTP_ACCEPT_HEADER \o <<"a">>, 0),
      Line(ConnLine, 0),
      Line(<<"C","O","N","N","E","C","T","I","O","N",":","x">>, 0),
      Line(HTTP_KEEP_ALIVE_HEADER \o <<"t">>, 0),
      Line(HTTP_CONTENT_LENGTH_HEADER \o <<"7">>, 0),
      Line(HTTP_CONTENT_LENGTH_HEADER \o <<" ","1","2">>, 0),
      Line(HTTP_CONTENT_LENGTH_HEADER \o <<"-","1">>, 0),
      Line(HTTP_CONTENT_LENGTH_HEADER, 0),
      Line(HTTP_CONTENT_LENGTH_HEADER \o <<"7">>, 1),
      Line(XLine, 0),
      Line(XLine, MAX_HEADER_LEN - Len(XLine)),
      Line(XLine, MAX_HEADER_LEN - Len(XLine) + 1),
      Line(ConnLine, MAX_HEADER_LEN - Len(ConnLine) + 1) }

IdleValues == {-1, 0, 5, 12}
IntervalValues == {-1, 0, 1}

NextCfg ==
    \/ \E m \in Methods, ok \in BOOLEAN : New(m, ok, 1)
    \/ \E l \in CallerLines : SetHeader(l)
    \/ \E i \in IdleValues, n \in IntervalValues : SetKeepalive(i, n)
    \/ \E mOk \in BOOLEAN : Start(mOk)

SpecCfg == Init /\ [][NextCfg]_vars

(* The key of a header line as a reader of the line sees it: the           *)
(* characters before the first colon, in lower case.                       *)
RECURSIVE KeyFrom(_, _)
KeyFrom(l, i) ==
    IF CharAt(l, i) \in {":", NUL} THEN <<>>
    ELSE <<tolower(CharAt(l, i))>> \o KeyFrom(l, i + 1)
KeyLower(l) == KeyFrom(l, 1)

KEY_ACCEPT == <<"a","c","c","e","p","t">>
KEY_CONNECTION == <<"c","o","n","n","e","c","t","i","o","n">>
KEY_KEEP_ALIVE == <<"k","e","e","p","-","a","l","i","v","e">>
KEY_CONTENT_LENGTH ==
    <<"c","o","n","t","e","n","t","-","l","e","n","g","t","h">>

(* The value of a header line: the characters after its first colon. *)
RECURSIVE TextFrom(_, _)
TextFrom(l, i) ==
    IF CharAt(l, i) = NUL THEN <<>>
    ELSE <<CharAt(l, i)>> \o TextFrom(l, i + 1)
RECURSIVE DropSpaces(_)
DropSpaces(t) == IF t # <<>> /\ t[1] = " " THEN DropSpaces(Tail(t)) ELSE t
RECURSIVE NumberOf(_)
NumberOf(t) ==
    IF t = <<>> THEN 0
    ELSE NumberOf(SubSeq(t, 1, Len(t) - 1)) * 10 + digitval(t[Len(t)])

(* A header value that is a non-negative integer: digits, at least one,    *)
(* after optional white space.                                             *)
IsNonNegInteger(t) ==
    LET d == DropSpaces(t)
    IN  d # <<>> /\ \A i \in 1..Len(d) : isdigit(d[i])

(* The headers a call appended to the list. *)
Appended(pre, post) ==
    SubSeq(post.headers, Len(pre.headers) + 1, Len(post.headers))

(* C5 (as claimed): new sets set_accept_header exactly for POST, PUT and   *)
(* PATCH.                                                                  *)
C5_AcceptExactlyForBodyMethods ==
    (last.op = "new" /\ last.ok) =>
        (req.set_accept_header <=> last.arg \in {"POST", "PUT", "PATCH"})

(* C6: at start a Connection header is appended exactly when the caller    *)
(* set none, with value Keep-Alive when keep_alive_timeout > 0 and close   *)
(* otherwise; a Keep-Alive: timeout=<keep_alive_timeout> header is         *)
(* appended exactly when the caller set none and keep_alive_timeout > 0.   *)
ExpectedTimeout(t) == IF t = 5 THEN <<"5">> ELSE <<"1","2">>
C6_AutoHeaders ==
    (last.op = "start") =>
        LET added == Appended(last.pre, req)
            kat == last.pre.keep_alive_timeout
            callerHas(k) == \E l \in hist.set : KeyLower(l) = k
            auto(k) == {i \in DOMAIN added : KeyLower(added[i]) = k}
            conn == HTTP_CONNECTION_HEADER \o
                    (IF kat > 0
                     THEN <<" ","K","e","e","p","-","A","l","i","v","e">>
                     ELSE <<" ","c","l","o","s","e">>)
            ka == HTTP_KEEP_ALIVE_HEADER
                  \o <<" ","t","i","m","e","o","u","t","=">>
                  \o ExpectedTimeout(kat)
        IN  /\ (auto(KEY_CONNECTION) # {}) <=> ~callerHas(KEY_CONNECTION)
            /\ \A i \in auto(KEY_CONNECTION) : added[i] = Line(conn, 0)
            /\ Cardinality(auto(KEY_CONNECTION)) <= 1
            /\ (auto(KEY_KEEP_ALIVE) # {})
                   <=> (~callerHas(KEY_KEEP_ALIVE) /\ kat > 0)
            /\ \A i \in auto(KEY_KEEP_ALIVE) : added[i] = Line(ka, 0)
            /\ Cardinality(auto(KEY_KEEP_ALIVE)) <= 1

(* C6 witness: start ran on a request whose caller set a Connection header *)
(* and a keep-alive timeout, and appended a Keep-Alive header only.        *)
C6_Witness ==
    /\ last.op = "start"
    /\ \E l \in hist.set : KeyLower(l) = KEY_CONNECTION
    /\ last.pre.keep_alive_timeout = 12
    /\ \E i \in DOMAIN req.headers :
          req.headers[i] = KeepAliveLine(12)

(* C7 (as claimed): a Content-Length line with a non-negative integer N is *)
(* appended and sets content_length = N; one whose value is not a          *)
(* non-negative integer, or a line longer than MAX_HEADER_LEN, fails with  *)
(* IllegalParams and changes nothing; a line of MAX_HEADER_LEN succeeds.   *)
C7_SetHeaderContract ==
    (last.op = "set_header") =>
        LET l == last.arg
            isCL == KeyLower(l) = KEY_CONTENT_LENGTH
            val == TextFrom(l, Len(KEY_CONTENT_LENGTH) + 2)
            tooLong == LineLen(l) > MAX_HEADER_LEN
            okNum == IsNonNegInteger(val)
        IN  /\ (isCL /\ okNum /\ ~tooLong) =>
                  /\ last.rc = 0
                  /\ Appended(last.pre, req) = <<l>>
                  /\ req.content_length = NumberOf(DropSpaces(val))
            /\ (tooLong \/ (isCL /\ ~okNum)) =>
                  /\ last.rc = -1
                  /\ last.err = "IllegalParams"
                  /\ req = last.pre
            /\ (LineLen(l) = MAX_HEADER_LEN /\ ~isCL) => last.rc = 0


-----------------------------------------------------------------------------
(* The callbacks the engine calls while the transfer is in progress.       *)

(* The next n bytes after the first k of a stream: byte i of a stream is   *)
(* the number i, so that loss, duplication and reordering show.            *)
Bytes(k, n) == [i \in 1..n |-> k + i]

curl_easy_header_cb_stale(r, redirect, bytes) ==
    IF redirect > r.redirect_count
    THEN [r EXCEPT !.resp_headers = bytes]
    ELSE [r EXCEPT !.resp_headers = @ \o bytes]
curl_easy_header_cb_keep(r, redirect, bytes) ==
    IF redirect > r.redirect_count
    THEN [r EXCEPT !.redirect_count = redirect, !.resp_headers = @ \o bytes]
    ELSE [r EXCEPT !.resp_headers = @ \o bytes]

(* curl_easy_header_cb: `redirect` is CURLINFO_REDIRECT_COUNT. *)
curl_easy_header_cb(r, redirect, bytes) ==
    IF redirect > r.redirect_count
    THEN [r EXCEPT !.redirect_count = redirect, !.resp_headers = bytes]
    ELSE [r EXCEPT !.resp_headers = @ \o bytes]

(* The engine hands over n header bytes of the current response; the       *)
(* headers of a response come before its body.                             *)
EngHeader(n) ==
    /\ req.live /\ req.in_progress /\ eng.added
    /\ eng.body = 0
    /\ eng.hdrs + n <= MaxHdrBytes
    /\ req' = curl_easy_header_cb(req, eng.redirect, Bytes(eng.hdrs, n))
    /\ eng' = [eng EXCEPT !.hdrs = @ + n, !.hopHdrs = @ + 1]
    /\ hist' = [hist EXCEPT !.hdrLog = @ \o
                   [i \in 1..n |-> [hop |-> eng.redirect,
                                    byte |-> eng.hdrs + i]]]
    /\ UNCHANGED <<env, app, rd, wr, last>>
    /\ UNCHANGED fib

(* The engine follows a redirect: the response it leaves had a status      *)
(* line, and the redirect count grows by one.                              *)
EngRedirect ==
    /\ req.live /\ req.in_progress /\ eng.added
    /\ eng.body = 0
    /\ eng.hopHdrs > 0
    /\ eng.redirect < MaxRedirects
    /\ eng' = [eng EXCEPT !.redirect = @ + 1, !.hopHdrs = 0]
    /\ UNCHANGED <<req, env, app, rd, wr, last, hist>>
    /\ UNCHANGED fib

(* curl_easy_write_cb; fiber_cond_signal wakes the first fiber sleeping on *)
(* io_recv_cond: start while it waits for the headers, else the reader.    *)
curl_easy_write_cb(r, bytes) == [r EXCEPT !.recv = @ \o bytes]

EngWrite(n, limit) ==
    /\ req.live /\ req.in_progress /\ eng.added
    /\ eng.body + n <= limit
    /\ req' = curl_easy_write_cb(req, Bytes(eng.body, n))
    /\ eng' = [eng EXCEPT !.body = @ + n]
    /\ IF req.io
       THEN IF AppCond(app, req) = "recv" /\ app.wake = NoWake
            THEN app' = BroadcastApp("recv", app, req) /\ rd' = rd
            ELSE rd' = BroadcastRd("recv", rd) /\ app' = app
       ELSE UNCHANGED <<app, rd>>
    /\ UNCHANGED <<env, wr, last, hist>>
    /\ UNCHANGED fib

Min(a, b) == IF a < b THEN a ELSE b

(* curl_easy_io_read_cb: the request after the call, the bytes copied to   *)
(* the engine's buffer and the return value.                               *)
curl_easy_io_read_cb_all(r, buffer_size) ==
    IF Len(r.send) = 0
    THEN [req |-> r, out |-> <<>>,
          ret |-> IF r.io_send_closed THEN "EOF" ELSE "CURL_READFUNC_PAUSE"]
    ELSE [req |-> [r EXCEPT !.send = <<>>], out |-> r.send, ret |-> "bytes"]
curl_easy_io_read_cb(r, buffer_size) ==
    IF Len(r.send) = 0
    THEN [req |-> r, out |-> <<>>,
          ret |-> IF r.io_send_closed THEN "EOF" ELSE "CURL_READFUNC_PAUSE"]
    ELSE LET read_len == Min(Len(r.send), buffer_size)
         IN  [req |-> [r EXCEPT !.send = SubSeq(@, read_len + 1, Len(@))],
              out |-> SubSeq(r.send, 1, read_len),
              ret |-> "bytes"]

(* The engine asks for upload data (only a streaming upload registers the  *)
(* callback); every path of the callback broadcasts io_send_cond.          *)
EngRead ==
    /\ req.live /\ req.in_progress /\ eng.added
    /\ req.io /\ req.io_send
    /\ ~eng.paused /\ ~eng.eof
    /\ LET c == curl_easy_io_read_cb(req, BufSize)
       IN  /\ req' = c.req
           /\ eng' = [eng EXCEPT
                        !.paused = (c.ret = "CURL_READFUNC_PAUSE"),
                        !.eof = (c.ret = "EOF")]
           /\ hist' = [hist EXCEPT !.wire = @ \o c.out]
    /\ app' = BroadcastApp("send", app, req)
    /\ wr' = BroadcastWr("send", wr)
    /\ UNCHANGED <<env, rd, last>>
    /\ UNCHANGED fib

-----------------------------------------------------------------------------
(* The fiber that reads the response body of a streaming request.          *)

(* The fibers of a streaming request run between the return of start and   *)
(* the deletion of the request.                                            *)
Streaming ==
    /\ req.live
    /\ \/ app.pc \in {"started", "done", "iofin_write"}
       \/ app.pc = "finish_wait" /\ app.ctx \in {"finish", "io_finish"}

io_read_copy_eager(r, len) ==
    LET copied == Min(Len(r.io_recv), len)
        r1 == [r EXCEPT !.io_recv = SubSeq(@, copied + 1, Len(@))]
        out1 == SubSeq(r.io_recv, 1, copied)
    IN  IF Len(r.recv) > 0
        THEN LET remain == Min(len - copied, Len(r.recv))
             IN  [req |-> [r1 EXCEPT
                             !.io_recv = @ \o SubSeq(r.recv, remain + 1,
                                                     Len(r.recv)),
                             !.recv = <<>>],
                  out |-> out1 \o SubSeq(r.recv, 1, remain)]
        ELSE [req |-> r1, out |-> out1]
io_read_copy_keep(r, len) ==
    LET copied == Min(Len(r.io_recv), len)
        r1 == [r EXCEPT !.io_recv = SubSeq(@, copied + 1, Len(@))]
        out1 == SubSeq(r.io_recv, 1, copied)
    IN  IF copied < len /\ Len(r.recv) > 0
        THEN LET remain == Min(len - copied, Len(r.recv))
             IN  [req |-> [r1 EXCEPT
                             !.io_recv = @ \o SubSeq(r.recv, remain + 1,
                                                     Len(r.recv))],
                  out |-> out1 \o SubSeq(r.recv, 1, remain)]
        ELSE [req |-> r1, out |-> out1]

(* httpc_request_io_read from the test after its loop: first the bytes of  *)
(* io_recv, then, if the caller's buffer has room, the head of recv, whose *)
(* tail moves to io_recv.                                                  *)
io_read_copy(r, len) ==
    LET copied == Min(Len(r.io_recv), len)
        r1 == [r EXCEPT !.io_recv = SubSeq(@, copied + 1, Len(@))]
        out1 == SubSeq(r.io_recv, 1, copied)
    IN  IF copied < len /\ Len(r.recv) > 0
        THEN LET remain == Min(len - copied, Len(r.recv))
             IN  [req |-> [r1 EXCEPT
                             !.io_recv = @ \o SubSeq(r.recv, remain + 1,
                                                     Len(r.recv)),
                             !.recv = <<>>],
                  out |-> out1 \o SubSeq(r.recv, 1, remain)]
        ELSE [req |-> r1, out |-> out1]

(* The condition of the loop of httpc_request_io_read. *)
ReadMustWait(r, tmo) ==
    r.in_progress /\ tmo /\ Len(r.recv) + Len(r.io_recv) = 0

ReadReturn(rc, out) ==
    /\ rd' = [rd EXCEPT !.pc = "idle", !.wake = NoWake, !.ret = rc,
                        !.fromIo = Min(Len(req.io_recv), rd.len)]
    /\ hist' = [hist EXCEPT !.readOut = @ \o out]

ReadBody(len, tmo) ==
    IF ReadMustWait(req, tmo)
    THEN /\ rd' = [rd EXCEPT !.pc = "read_wait", !.wake = NoWake,
                             !.len = len]
         /\ UNCHANGED <<req, hist>>
    ELSE LET c == io_read_copy(req, len)
         IN  /\ req' = c.req
             /\ ReadReturn(Len(c.out), c.out)

(* httpc_request_io_read up to its first suspension; tmo is timeout > 0. *)
IoRead(len, tmo) ==
    /\ Streaming
    /\ rd.pc = "idle"
    /\ ~rd.cancelled
    /\ rd.calls < MaxReads
    /\ IF ~req.io
       THEN /\ rd' = [rd EXCEPT !.ret = -1, !.calls = @ + 1, !.len = len,
                                !.illegal = TRUE]
            /\ UNCHANGED <<req, hist>>
       ELSE IF ReadMustWait(req, tmo)
       THEN /\ rd' = [rd EXCEPT !.pc = "read_wait", !.wake = NoWake,
                                !.len = len, !.calls = @ + 1,
                                !.illegal = FALSE]
            /\ UNCHANGED <<req, hist>>
       ELSE LET c == io_read_copy(req, len)
            IN  /\ req' = c.req
                /\ rd' = [rd EXCEPT !.ret = Len(c.out), !.calls = @ + 1,
                                    !.len = len, !.illegal = FALSE,
                                    !.fromIo = Min(Len(req.io_recv), len)]
                /\ hist' = [hist EXCEPT !.readOut = @ \o c.out]
    /\ UNCHANGED <<env, eng, app, wr, last>>
    /\ UNCHANGED fib

(* httpc_request_io_read after fiber_cond_wait_deadline: a wait that timed *)
(* out returns -1, else the loop tests its condition again.                *)
ReadResume ==
    /\ rd.pc = "read_wait"
    /\ rd.wake # NoWake
    /\ IF rd.wake \in {"timeout", "cancel"}
       THEN /\ rd' = [rd EXCEPT !.pc = "idle", !.wake = NoWake, !.ret = -1]
            /\ UNCHANGED <<req, hist>>
       ELSE ReadBody(rd.len, TRUE)
    /\ UNCHANGED <<env, eng, app, wr, last>>
    /\ UNCHANGED fib

(* The runtime cancels the reader while it is suspended in io_read. *)
RdCancel ==
    /\ rd.pc = "read_wait"
    /\ ~rd.cancelled
    /\ rd' = [rd EXCEPT !.wake = "cancel", !.cancelled = TRUE]
    /\ UNCHANGED <<req, env, eng, app, wr, last, hist>>
    /\ UNCHANGED fib

RdTimeout ==
    /\ rd.pc = "read_wait"
    /\ rd.wake = NoWake
    /\ rd' = [rd EXCEPT !.wake = "timeout"]
    /\ UNCHANGED <<req, env, eng, app, wr, last, hist>>
    /\ UNCHANGED fib

-----------------------------------------------------------------------------
(* The fiber that writes the request body of a streaming upload.           *)

(* Bytes of a body set by httpc_set_body are numbered from BodyBase, apart *)
(* from the bytes of io_write payloads.                                    *)
BodyBase == MaxWrites * MaxPayload

(* httpc_set_body: the body replaces send and its size is set as the       *)
(* Content-Length header.                                                  *)
httpc_set_body(r, body) ==
    httpc_set_header([r EXCEPT !.send = body],
                     Line(HTTP_CONTENT_LENGTH_HEADER \o <<" ">>
                              \o DecimalOf(Len(body)), 0))

SetBody(size) ==
    /\ app.pc = "new"
    /\ app.calls < MaxCalls
    /\ LET res == httpc_set_body(req, Bytes(BodyBase, size))
       IN  /\ req' = res.req
           /\ last' = [op |-> "set_body", arg |-> size, pre |-> req,
                       rc |-> res.rc, err |-> res.err]
    /\ app' = [app EXCEPT !.calls = @ + 1]
    /\ UNCHANGED <<env, eng, rd, wr, hist>>
    /\ UNCHANGED fib

(* The test of httpc_request_io_write that absorbs a write after the end   *)
(* of the transfer or the close of the upload.                             *)
WriteAbsorbedAfterEnd(r) == ~r.in_progress
WriteAbsorbed(r) == ~r.in_progress \/ r.io_send_closed

(* The condition of the first loop of httpc_request_io_write. *)
WriteMustWait(r, tmo) == r.in_progress /\ Len(r.send) > 0 /\ tmo

(* The io_write call of the writer returns rc. *)
WriteReturn(w, h, rc) ==
    [wr |-> [w EXCEPT !.pc = "idle", !.wake = NoWake, !.ret = rc],
     hist |-> IF rc = Len(w.payload)
              THEN [h EXCEPT !.accepted = @ \o w.payload]
              ELSE [h EXCEPT !.rejected =
                       @ \cup {w.payload[i] : i \in 1..Len(w.payload)}]]

(* httpc_request_io_write after its first loop: a buffer still full makes  *)
(* the call fail; else the payload (or the close mark) is stored, the      *)
(* engine is asked to resume the upload and the fiber waits.               *)
WriteStore(w) ==
    IF Len(req.send) > 0
    THEN LET x == WriteReturn(w, hist, IF req.in_progress THEN -1 ELSE 0)
         IN  /\ wr' = x.wr
             /\ hist' = x.hist
             /\ UNCHANGED <<req, eng>>
    ELSE /\ req' = IF Len(w.payload) > 0
                   THEN [req EXCEPT !.send = w.payload]
                   ELSE [req EXCEPT !.io_send_closed = TRUE]
         /\ eng' = [eng EXCEPT !.paused = FALSE, !.resumes = @ + 1]
         /\ wr' = [w EXCEPT !.pc = "write_wait3", !.wake = ParkWake(w)]
         /\ hist' = hist

(* The test httpc_request_io_write makes of its request before anything    *)
(* else: the request streams and its method has a body.                    *)
WriteIllegal(r) == ~r.io \/ ~r.io_send

(* httpc_request_io_write up to its first suspension; tmo is timeout > 0. *)
IoWriteCall(len, tmo) ==
    LET w == [wr EXCEPT !.payload = Bytes(wr.offered, len),
                        !.offered = @ + len, !.tmo = tmo,
                        !.calls = @ + 1, !.late = FALSE,
                        !.illegal = FALSE]
        h == IF req.io_send_closed
             THEN [hist EXCEPT !.lateWrites = @ + 1]
             ELSE hist
    IN  IF WriteIllegal(req)
        THEN LET x == WriteReturn(w, h, -1)
             IN  /\ wr' = [x.wr EXCEPT !.illegal = TRUE]
                 /\ hist' = x.hist
                 /\ UNCHANGED <<req, eng>>
        ELSE IF WriteAbsorbed(req)
        THEN LET x == WriteReturn(w, h, 0)
             IN  /\ wr' = x.wr
                 /\ hist' = x.hist
                 /\ UNCHANGED <<req, eng>>
        ELSE IF WriteMustWait(req, tmo)
        THEN /\ wr' = [w EXCEPT !.pc = "write_wait1", !.wake = NoWake]
             /\ hist' = h
             /\ UNCHANGED <<req, eng>>
        ELSE WriteStore(w)

(* httpc_request_io_write called by the fiber that writes the body. *)
IoWrite(len, tmo) ==
    /\ Streaming
    /\ wr.pc = "idle"
    /\ ~wr.cancelled
    /\ wr.calls < MaxWrites
    /\ IoWriteCall(len, tmo)
    /\ UNCHANGED <<env, app, rd, last>>
    /\ UNCHANGED fib

(* After fiber_cond_wait_deadline in the loop: a wait that timed out       *)
(* returns -1, else the fiber waits again, without a deadline.             *)
WriteResume1 ==
    /\ wr.pc = "write_wait1"
    /\ wr.wake # NoWake
    /\ LET x == WriteReturn(wr, hist, -1)
       IN  IF wr.wake \in {"timeout", "cancel"}
           THEN wr' = x.wr /\ hist' = x.hist
           ELSE /\ wr' = [wr EXCEPT !.pc = "write_wait2", !.wake = NoWake]
                /\ hist' = hist
    /\ UNCHANGED <<req, env, eng, app, rd, last>>
    /\ UNCHANGED fib

(* After fiber_cond_wait in the loop: the loop tests its condition again. *)
WriteResume2 ==
    /\ wr.pc = "write_wait2"
    /\ wr.wake # NoWake
    /\ IF WriteMustWait(req, wr.tmo)
       THEN /\ wr' = [wr EXCEPT !.pc = "write_wait1", !.wake = ParkWake(wr)]
            /\ UNCHANGED <<req, eng, hist>>
       ELSE WriteStore(wr)
    /\ UNCHANGED <<env, app, rd, last>>
    /\ UNCHANGED fib

(* After the last fiber_cond_wait_deadline, whose result is not looked at: *)
(* bytes still in send are dropped and the call returns 0, else len.       *)
WriteResume3Keep ==
    /\ wr.pc = "write_wait3"
    /\ wr.wake # NoWake
    /\ LET rc == IF Len(req.send) > 0 THEN 0 ELSE Len(wr.payload)
           x == WriteReturn(wr, hist, rc)
       IN  /\ req' = req
           /\ wr' = x.wr
           /\ hist' = x.hist
    /\ UNCHANGED <<env, eng, app, rd, last>>
    /\ UNCHANGED fib
WriteResume3 ==
    /\ wr.pc = "write_wait3"
    /\ wr.wake # NoWake
    /\ LET rc == IF Len(req.send) > 0 THEN 0 ELSE Len(wr.payload)
           x == WriteReturn(wr, hist, rc)
       IN  /\ req' = [req EXCEPT !.send = <<>>]
           /\ wr' = x.wr
           /\ hist' = x.hist
    /\ UNCHANGED <<env, eng, app, rd, last>>
    /\ UNCHANGED fib

(* A wait of the writer with a deadline ends because the time is up. *)
WrTimeout ==
    /\ wr.pc \in {"write_wait1", "write_wait3"}
    /\ wr.wake = NoWake
    /\ wr' = [wr EXCEPT !.wake = "timeout"]
    /\ UNCHANGED <<req, env, eng, app, rd, last, hist>>
    /\ UNCHANGED fib

(* The runtime cancels the writer while it is suspended in io_write. *)
WrCancel ==
    /\ wr.pc \in {"write_wait1", "write_wait2", "write_wait3"}
    /\ ~wr.cancelled
    /\ wr' = [wr EXCEPT !.wake = "cancel", !.cancelled = TRUE]
    /\ UNCHANGED <<req, env, eng, app, rd, last, hist>>
    /\ UNCHANGED fib

(* The deadline of the call passes while the writer sleeps in              *)
(* fiber_cond_wait, which has no deadline: nothing wakes the fiber.        *)
WrDeadline ==
    /\ wr.pc = "write_wait2"
    /\ ~wr.late
    /\ wr' = [wr EXCEPT !.late = TRUE]
    /\ UNCHANGED <<req, env, eng, app, rd, last, hist>>
    /\ UNCHANGED fib

-----------------------------------------------------------------------------
(* A batch of requests run through start and finish.                       *)

NextStat ==
    \/ \E m \in {"GET", "POST"}, ok \in BOOLEAN : New(m, ok, MaxReqs)
    \/ SetIo(req.method)
    \/ \E mOk \in BOOLEAN : Start(mOk)
    \/ \E mOk \in BOOLEAN, errinj \in BOOLEAN : StartResume(mOk, errinj)
    \/ \E mOk \in BOOLEAN, errinj \in BOOLEAN : Finish(mOk, errinj)
    \/ \E mOk \in BOOLEAN, errinj \in BOOLEAN : FinishResume(mOk, errinj)
    \/ AppTimeout
    \/ \E c \in TermCodes :
          \E n \in (IF c = "CURLE_OK" THEN RespCodes ELSE {0}) :
             EngineDone(c, n)
    \/ EngWrite(1, 1)
    \/ EngRead
    \/ Delete

SpecStat == Init /\ [][NextStat]_vars

(* C8 (as claimed): once every request of the batch has run, the counters  *)
(* equal the numbers of requests that ended OK with 200, OK with another   *)
(* status, and in a failure: total = M+J+K, http_200 = M, http_other = J,  *)
(* failed = K.                                                             *)
C8_CountersMatchBatch ==
    (app.pc = "none" /\ ~req.live) =>
        /\ env.stat.total =
              hist.ends.ok200 + hist.ends.okOther + hist.ends.failed
        /\ env.stat.http_200 = hist.ends.ok200
        /\ env.stat.http_other = hist.ends.okOther
        /\ env.stat.failed = hist.ends.failed

(* C9: finish maps the terminal code to the outcome: OK gives the response *)
(* code with reason Ok in [100,400) and Unknown otherwise; peer            *)
(* verification failure 495, timed out 408, got nothing 444, resolve,      *)
(* connect, write and encoding errors 595, each with the engine's error    *)
(* string and return value 0; any other code an error, status unchanged.   *)
C9_Classification ==
    (last.op = "finish" /\ last.mcode = "CURLM_OK" /\ ~last.errinj) =>
        LET code == last.pre.code
            classified(st) ==
                /\ last.rc = 0
                /\ req.status = st
                /\ req.reason = <<"strerror", code>>
        IN  CASE code = "CURLE_OK" ->
                    /\ last.rc = 0
                    /\ req.status = last.respCode
                    /\ req.reason =
                          IF req.status \in 100..399 THEN "Ok" ELSE "Unknown"
             [] code \in {"CURLE_PEER_FAILED_VERIFICATION",
                          "CURLE_SSL_CACERT"} -> classified(495)
             [] code = "CURLE_OPERATION_TIMEDOUT" -> classified(408)
             [] code = "CURLE_GOT_NOTHING" -> classified(444)
             [] code \in {"CURLE_COULDNT_RESOLVE_PROXY",
                          "CURLE_COULDNT_RESOLVE_HOST",
                          "CURLE_COULDNT_CONNECT", "CURLE_WRITE_ERROR",
                          "CURLE_BAD_CONTENT_ENCODING"} -> classified(595)
             [] OTHER ->
                    /\ last.rc = -1
                    /\ req.status = last.pre.status
                    /\ req.reason = last.pre.reason

(* C9 witness: finish classified a transfer that got nothing as 444, and   *)
(* counted it as failed.                                                   *)
C9_Witness ==
    /\ last.op = "finish"
    /\ last.pre.code = "CURLE_GOT_NOTHING"
    /\ req.status = 444
    /\ last.rc = 0
    /\ env.stat.failed = 1

(* C10 (as claimed): after a finish that returned success status is in     *)
(* [100, 599] and reason is non-null; before it status is 0.               *)
C10_StatusInHttpRange ==
    req.live =>
        IF hist.finOk
        THEN req.status \in 100..599 /\ req.reason # "NULL"
        ELSE req.status = 0

(* C10 (amended): after a finish that returned success reason is non-null  *)
(* and status is 495, 408, 444 or 595 for a classified failure and         *)
(* otherwise the engine's response code, whatever it is; before it status  *)
(* is 0 and reason is null.                                                *)
C10_StatusAfterFinish ==
    req.live =>
        IF hist.finOk
        THEN /\ req.reason # "NULL"
             /\ \/ req.code # "CURLE_OK" /\ req.status \in {495, 408, 444, 595}
                \/ req.code = "CURLE_OK" /\ req.status = eng.respCode
        ELSE req.status = 0 /\ req.reason = "NULL"

(* C10 witness: a finish returned success for a transfer that ended OK     *)
(* with a response code above 599.                                         *)
C10_Witness ==
    /\ req.live
    /\ hist.finOk
    /\ last.op = "finish"
    /\ req.status = 600
    /\ req.reason = "Unknown"

-----------------------------------------------------------------------------
(* The response headers of a transfer that follows redirects.              *)

NextHdr ==
    \/ New("GET", TRUE, 1)
    \/ \E mOk \in BOOLEAN : Start(mOk)
    \/ \E n \in 1..2 : EngHeader(n)
    \/ EngRedirect
    \/ EngineDone("CURLE_OK", 200)
    \/ Finish(TRUE, FALSE)
    \/ FinishResume(TRUE, FALSE)
    \/ AppTimeout
    \/ Delete

SpecHdr == Init /\ [][NextHdr]_vars

(* The highest redirect count any header callback of the log saw. *)
FinalHop(log) ==
    CHOOSE h \in {log[i].hop : i \in 1..Len(log)} :
        \A i \in 1..Len(log) : log[i].hop <= h

(* The bytes of the log delivered at redirect count h, in order. *)
HopBytes(log, h) ==
    LET AtHop(e) == e.hop = h
        sel == SelectSeq(log, AtHop)
    IN  [i \in 1..Len(sel) |-> sel[i].byte]

(* C1: after any sequence of header callbacks resp_headers holds exactly   *)
(* the header bytes delivered at the final (highest) redirect count, in    *)
(* order; the bytes of every earlier hop are gone.                         *)
C1_FinalHopHeaders ==
    (req.live /\ hist.hdrLog # <<>>) =>
        /\ req.resp_headers = HopBytes(hist.hdrLog, FinalHop(hist.hdrLog))
        /\ req.redirect_count = FinalHop(hist.hdrLog)

(* C1 witness: two redirects were followed, every hop delivered header     *)
(* bytes, and the last hop delivered two of them.                          *)
C1_Witness ==
    /\ req.live
    /\ req.redirect_count = 2
    /\ Len(hist.hdrLog) = 4
    /\ hist.hdrLog[1].hop = 0
    /\ hist.hdrLog[2].hop = 1
    /\ Len(req.resp_headers) = 2

-----------------------------------------------------------------------------
(* A streaming download read by io_read.                                   *)

NextRead ==
    \/ New("GET", TRUE, 1)
    \/ SetIo("GET")
    \/ Start(TRUE)
    \/ StartResume(TRUE, FALSE)
    \/ AppTimeout
    \/ \E n \in 1..2 : EngWrite(n, MaxBody)
    \/ EngineDone("CURLE_OK", 200)
    \/ \E len \in 0..MaxReadLen, tmo \in BOOLEAN : IoRead(len, tmo)
    \/ ReadResume
    \/ RdTimeout
    \/ Finish(TRUE, FALSE)
    \/ FinishResume(TRUE, FALSE)
    \/ Delete

SpecRead == Init /\ [][NextRead]_vars

(* C2: for a streaming request the bytes returned by the io_read calls so  *)
(* far, then the contents of io_recv, then those of recv, are the bytes    *)
(* the engine has delivered so far, in order.                              *)
C2_ReadConservesBytes ==
    (req.live /\ req.io) =>
        hist.readOut \o req.io_recv \o req.recv = Bytes(0, eng.body)

(* C2 witness: io_read calls have returned bytes while io_recv holds a     *)
(* tail left by a call and recv holds bytes delivered after it.            *)
C2_Witness ==
    /\ req.live /\ req.io
    /\ rd.calls >= 1
    /\ Len(hist.readOut) >= 1
    /\ Len(req.io_recv) >= 1
    /\ Len(req.recv) >= 1

-----------------------------------------------------------------------------
(* A streaming upload written by io_write.                                 *)

BodySizes == {1, BufSize + 1}
PayloadLens == {0, 1, MaxPayload}

NextWrite ==
    \/ New("POST", TRUE, 1)
    \/ \E size \in BodySizes : SetBody(size)
    \/ SetIo("POST")
    \/ Start(TRUE)
    \/ StartResume(TRUE, FALSE)
    \/ AppTimeout
    \/ EngRead
    \/ EngineDone("CURLE_OK", 200)
    \/ \E len \in PayloadLens, tmo \in BOOLEAN : IoWrite(len, tmo)
    \/ WriteResume1
    \/ WriteResume2
    \/ WriteResume3
    \/ WrTimeout
    \/ WrDeadline
    \/ Finish(TRUE, FALSE)
    \/ FinishResume(TRUE, FALSE)
    \/ Delete

SpecWrite == Init /\ [][NextWrite]_vars

(* The bytes of io_write payloads among those handed to the engine. *)
PayloadBytes(wire) ==
    LET IsPayload(b) == b <= BodyBase
    IN  SelectSeq(wire, IsPayload)

(* C3 (as claimed): whenever no io_write call is under way, the payload    *)
(* bytes the upload callback has handed to the engine are the payloads of  *)
(* the io_write calls that returned len, in call order, and no byte of a   *)
(* call that returned 0 or an error is among them.                         *)
C3_WireIsAcceptedPayloads ==
    (req.live /\ req.io /\ wr.pc = "idle") =>
        /\ PayloadBytes(hist.wire) = hist.accepted
        /\ \A i \in 1..Len(hist.wire) : hist.wire[i] \notin hist.rejected

(* C4: once the upload is closed, an io_write call returns 0 at once and   *)
(* leaves send and the engine alone.                                       *)
C4_WriteAfterCloseAbsorbed ==
    [][(/\ wr'.calls = wr.calls + 1
        /\ req.live /\ req.io /\ req.io_send
        /\ req.io_send_closed)
       => (/\ wr'.ret = 0
           /\ wr'.pc = "idle"
           /\ req'.send = req.send
           /\ eng'.resumes = eng.resumes
           /\ eng'.paused = eng.paused)]_vars

(* C4 witness: the upload was closed by io_write(null, 0) while the        *)
(* transfer was in progress, and a later io_write with a payload returned  *)
(* 0.                                                                      *)
C4_Witness ==
    /\ req.live /\ req.in_progress
    /\ req.io_send_closed
    /\ hist.lateWrites >= 1
    /\ Len(wr.payload) > 0
    /\ wr.pc = "idle"
    /\ wr.ret = 0

-----------------------------------------------------------------------------
(* httpc_execute.                                                          *)

(* C11: a run through execute is one start call followed, exactly when     *)
(* start returned 0, by one finish call; its result is start's failure or  *)
(* else the result of that finish call, and status, reason and the         *)
(* counters are those start and that one finish call left.                 *)
C11_ExecuteIsStartThenFinish ==
    /\ hist.callerFin =
          (IF app.pc = "done" /\ hist.startRc = 0 THEN 1 ELSE 0)
    /\ (app.pc = "finish_wait" /\ app.ctx = "finish") => hist.startRc = 0
    /\ app.pc = "started" => hist.startRc = 0
    /\ app.pc = "failed" => hist.startRc = -1 /\ app.rc = hist.startRc
    /\ app.pc = "done" =>
          /\ hist.startRc = 0
          /\ last.op = "finish"
          /\ app.rc = last.rc

(* C11 witness: start failed after the request was counted, and the run    *)
(* ended with that failure and without a finish call of the caller.        *)
C11_Witness ==
    /\ app.pc = "failed"
    /\ hist.startRc = -1
    /\ hist.counted
    /\ hist.callerFin = 0
    /\ app.rc = -1

-----------------------------------------------------------------------------
(* The start of a streaming request.                                       *)

(* The engine hands over body bytes of the final response, whose headers   *)
(* it has handed over before.                                              *)
EngBody(n, limit) ==
    /\ eng.hopHdrs > 0
    /\ EngWrite(n, limit)

NextStart ==
    \/ \E m \in {"GET", "POST"} : New(m, TRUE, 1)
    \/ SetIo(req.method)
    \/ \E mOk \in BOOLEAN : Start(mOk)
    \/ \E mOk \in BOOLEAN : StartResume(mOk, FALSE)
    \/ AppTimeout
    \/ EngHeader(1)
    \/ EngRedirect
    \/ EngBody(1, 1)
    \/ EngRead
    \/ \E c \in {"CURLE_OK", "CURLE_COULDNT_CONNECT"} : EngineDone(c, 200)
    \/ \E mOk \in BOOLEAN : Finish(mOk, FALSE)
    \/ \E mOk \in BOOLEAN : FinishResume(mOk, FALSE)
    \/ Delete

SpecStart == Init /\ [][NextStart]_vars

(* The upload callback has been called for the request. *)
UploadAsked == eng.paused \/ eng.eof \/ hist.wire # <<>>

(* Start gave up its wait and ends in failure after a finish attempt. *)
StartGaveUp(a, l, e) ==
    \/ a.pc = "finish_wait" /\ a.ctx = "start_timeout"
    \/ a.pc = "failed" /\ a.rc = -1 /\ l.op = "finish" /\ ~e.added

(* C12 (as claimed): start of a streaming request has returned success     *)
(* only if header bytes of the response are in resp_headers or the         *)
(* transfer has completed.                                                 *)
C12_StartAfterHeaders ==
    (req.live /\ req.io /\ hist.startRc = 0) =>
        Len(req.resp_headers) > 0 \/ ~req.in_progress

(* C12 (amended): start of a streaming request has returned success only   *)
(* if the transfer has completed or, for a method without a body, body     *)
(* bytes (and so the headers before them) have arrived or, for an upload,  *)
(* the engine has asked for upload data; a wait that timed out is followed *)
(* by a finish attempt and the return of a failure.                        *)
C12_StartAfterFirstCallback ==
    /\ [](  (req.live /\ req.io /\ hist.startRc = 0) =>
               \/ ~req.in_progress
               \/ ~req.io_send /\ eng.body > 0 /\ Len(req.resp_headers) > 0
               \/ req.io_send /\ UploadAsked)
    /\ [][(/\ app.pc = "start_wait" /\ app.wake = "timeout"
           /\ app' # app)
          => StartGaveUp(app', last', eng')]_vars
    /\ [][(/\ app.pc = "finish_wait" /\ app.ctx = "start_timeout"
           /\ app'.pc # "finish_wait")
          => StartGaveUp(app', last', eng')]_vars

(* C12 witness: start of a streaming upload returned success when the      *)
(* engine asked for upload data, before any response header.               *)
C12_Witness ==
    /\ req.live /\ req.io /\ req.io_send
    /\ hist.startRc = 0
    /\ req.in_progress
    /\ UploadAsked
    /\ req.resp_headers = <<>>

-----------------------------------------------------------------------------
(* The results of io_read.                                                 *)

NothingBuffered(r) == r.io_recv = <<>> /\ r.recv = <<>>

(* C13 (as claimed): io_read with len > 0 returns 0 only when io_recv and  *)
(* recv are empty and the transfer is no longer in progress; a call made   *)
(* while the transfer is in progress and nothing is buffered waits,        *)
(* whatever its timeout, and a wait whose deadline fires returns an error. *)
C13_ZeroMeansEndOfStream ==
    /\ []((/\ req.live /\ req.io
           /\ rd.pc = "idle" /\ rd.calls > 0 /\ rd.len > 0 /\ rd.ret = 0)
          => (NothingBuffered(req) /\ ~req.in_progress))
    /\ [][(/\ rd'.calls = rd.calls + 1
           /\ rd'.len > 0
           /\ req.io /\ req.in_progress /\ NothingBuffered(req))
          => rd'.pc = "read_wait"]_vars
    /\ [][(/\ rd.pc = "read_wait" /\ rd.wake = "timeout"
           /\ rd' # rd)
          => (rd'.pc = "idle" /\ rd'.ret = -1)]_vars

-----------------------------------------------------------------------------
(* The waits of io_write.                                                  *)

(* C14 (as claimed): an io_write call that found unsent bytes in send is   *)
(* never left suspended once its deadline has passed, and at the deadline  *)
(* it returns an error if the transfer is in progress and 0 if it has      *)
(* ended.                                                                  *)
C14_WriteWaitsUntilDeadline ==
    /\ [](~(wr.pc = "write_wait2" /\ wr.late /\ wr.wake = NoWake))
    /\ [][(/\ wr.pc = "write_wait1" /\ wr.wake = "timeout"
           /\ wr' # wr)
          => (/\ wr'.pc = "idle"
              /\ wr'.ret = IF req.in_progress THEN -1 ELSE 0)]_vars

-----------------------------------------------------------------------------
(* The end of a streaming transfer with a reader and a writer parked.      *)

NextDone ==
    \/ New("POST", TRUE, 1)
    \/ SetBody(BufSize + 1)
    \/ SetIo("POST")
    \/ Start(TRUE)
    \/ StartResume(TRUE, FALSE)
    \/ AppTimeout
    \/ EngRead
    \/ EngWrite(1, 1)
    \/ EngineDone("CURLE_OK", 200)
    \/ \E tmo \in BOOLEAN : IoRead(1, tmo)
    \/ ReadResume
    \/ RdTimeout
    \/ \E len \in {0, 1}, tmo \in BOOLEAN : IoWrite(len, tmo)
    \/ WriteResume1
    \/ WriteResume2
    \/ WriteResume3
    \/ WrTimeout
    \/ WrDeadline
    \/ Finish(TRUE, FALSE)
    \/ FinishResume(TRUE, FALSE)
    \/ Delete

(* The scheduler runs every fiber that has been woken; nothing is assumed  *)
(* about the engine, the callers or the clock.                             *)
SpecDone ==
    /\ Init
    /\ [][NextDone]_vars
    /\ WF_vars(ReadResume)
    /\ WF_vars(WriteResume1)
    /\ WF_vars(WriteResume2)
    /\ WF_vars(WriteResume3)

(* C15 (as claimed): once the completion handler has run for a streaming   *)
(* request, io_send_closed is set and every fiber parked in io_read or     *)
(* io_write returns from its call with no further callback or broadcast.   *)
C15_DoneUnblocksAll ==
    /\ []((req.live /\ req.io /\ ~req.in_progress /\ hist.startRc # 1)
          => req.io_send_closed)
    /\ (req.live /\ req.io /\ ~req.in_progress /\ hist.startRc # 1)
          ~> (rd.pc = "idle" /\ wr.pc = "idle")

-----------------------------------------------------------------------------
(* Cancellation of a fiber suspended in io_read or io_write.               *)

NextCancel ==
    \/ New("POST", TRUE, 1)
    \/ SetBody(BufSize + 1)
    \/ SetIo("POST")
    \/ Start(TRUE)
    \/ StartResume(TRUE, FALSE)
    \/ AppTimeout
    \/ EngRead
    \/ \E n \in 1..2 : EngWrite(n, 2)
    \/ EngineDone("CURLE_OK", 200)
    \/ \E len \in 1..2 : IoRead(len, TRUE)
    \/ ReadResume
    \/ RdCancel
    \/ \E len \in {0, 1, MaxPayload}, tmo \in BOOLEAN : IoWrite(len, tmo)
    \/ WriteResume1
    \/ WriteResume2
    \/ WriteResume3
    \/ WrCancel

SpecCancel == Init /\ [][NextCancel]_vars

(* No byte occurs twice in s and the bytes of s are in growing order. *)
InOrder(s) == \A i, j \in 1..Len(s) : i < j => s[i] < s[j]

(* C16 (as claimed): a fiber cancelled while suspended in io_read or       *)
(* io_write returns an error from its call, not a byte count; the bytes    *)
(* delivered to recv and io_recv are all there, once and in order, and so  *)
(* are the bytes handed to the engine from send.                           *)
C16_CancelReturnsError ==
    /\ []((req.live /\ req.io) =>
              /\ hist.readOut \o req.io_recv \o req.recv = Bytes(0, eng.body)
              /\ InOrder(PayloadBytes(hist.wire)))
    /\ [][(rd.wake = "cancel" /\ rd' # rd)
          => (rd'.pc = "idle" /\ rd'.ret = -1)]_vars
    /\ [][(wr.wake = "cancel" /\ wr'.pc = "idle") => wr'.ret = -1]_vars


-----------------------------------------------------------------------------
(* httpc_request_io_finish. The caller runs it in the fiber that writes    *)
(* the body, so the write of the close mark it makes is a call of that     *)
(* fiber; the caller goes on when that call has returned.                  *)

(* The end of io_finish: a request not yet finished is finished, and a     *)
(* success wakes every fiber waiting for the body.                         *)
IoFinishRest(r, mOk, errinj) ==
    IF r.status = 0
    THEN /\ FinishEnter(r, eng, mOk, errinj, "io_finish")
         /\ rd' = IF app'.pc = "done" /\ app'.rc = 0
                  THEN BroadcastRd("recv", rd) ELSE rd
         /\ wr' = IF app'.pc = "done" /\ app'.rc = 0
                  THEN BroadcastWr("send", wr) ELSE wr
    ELSE /\ req' = r
         /\ rd' = BroadcastRd("recv", rd)
         /\ wr' = BroadcastWr("send", wr)
         /\ app' = [app EXCEPT !.pc = "done", !.rc = 0]
         /\ last' = [op |-> "io_finish", pre |-> req, rc |-> 0,
                     err |-> "none"]
         /\ UNCHANGED <<env, eng, hist>>

(* httpc_request_io_finish up to the return of its write of the close mark *)
(* or, when it makes none, to the wait of finish.                          *)
IoFinish(tmo, mOk, errinj) ==
    /\ req.live
    /\ app.pc = "started"
    /\ wr.pc = "idle"
    /\ ~wr.cancelled
    /\ IF ~req.io
       THEN /\ app.calls < MaxCalls
            /\ app' = [app EXCEPT !.rc = -1, !.calls = @ + 1]
            /\ last' = [op |-> "io_finish", pre |-> req, rc |-> -1,
                        err |-> "IllegalParams"]
            /\ UNCHANGED <<req, env, eng, rd, wr, hist>>
       ELSE IF req.in_progress /\ ~req.io_send_closed
       THEN /\ IoWriteCall(0, tmo)
            /\ app' = [app EXCEPT !.pc = "iofin_write"]
            /\ UNCHANGED <<env, rd, last>>
       ELSE IoFinishRest(req, mOk, errinj)
    /\ UNCHANGED fib

(* httpc_request_io_finish once its write of the close mark has returned:  *)
(* a result of 0 closes the upload.                                        *)
IoFinishAfterWrite(mOk, errinj) ==
    /\ app.pc = "iofin_write"
    /\ wr.pc = "idle"
    /\ IoFinishRest(IF wr.ret = 0
                    THEN [req EXCEPT !.io_send_closed = TRUE]
                    ELSE req, mOk, errinj)
    /\ UNCHANGED fib

(* httpc_request_io_finish after the wait of curl_request_finish. *)
IoFinishResume(mOk, errinj) ==
    /\ app.pc = "finish_wait"
    /\ app.ctx = "io_finish"
    /\ app.wake # NoWake
    /\ FinishTail(req, eng, app.wake, mOk, errinj, app.ctx)
    /\ rd' = IF app'.rc = 0 THEN BroadcastRd("recv", rd) ELSE rd
    /\ wr' = IF app'.rc = 0 THEN BroadcastWr("send", wr) ELSE wr
    /\ UNCHANGED fib


(* No request of this specification has a body set before it streams, so  *)
(* io_write finds the send buffer empty and only ever waits after storing. *)
NextMisuse ==
    \/ \E method \in {"GET", "POST"} : New(method, TRUE, 1)
    \/ \E method \in {"GET", "POST"} : SetIo(method)
    \/ \E method \in {"GET", "POST"} : SetIoAgain(method)
    \/ Start(TRUE)
    \/ StartResume(TRUE, FALSE)
    \/ AppTimeout
    \/ EngRead
    \/ EngWrite(2, 2)
    \/ EngineDone("CURLE_OK", 200)
    \/ IoRead(1, TRUE)
    \/ ReadResume
    \/ RdTimeout
    \/ \E len \in {0, 1} : IoWrite(len, TRUE)
    \/ WriteResume3
    \/ WrTimeout
    \/ \E tmo \in BOOLEAN : IoFinish(tmo, TRUE, FALSE)
    \/ IoFinishAfterWrite(TRUE, FALSE)
    \/ IoFinishResume(TRUE, FALSE)
    \/ Finish(TRUE, FALSE)
    \/ FinishResume(TRUE, FALSE)
    \/ Delete

SpecMisuse == Init /\ [][NextMisuse]_vars

(* C17: misuse of the streaming calls fails with IllegalParams and leaves  *)
(* the request and its transfer as they were: io_read, io_write and        *)
(* io_finish on a request that does not stream, io_write on a streaming    *)
(* request whose method has no body, and set_io on a request that streams  *)
(* already.                                                                *)
C17_MisuseIsIllegalParams ==
    /\ [][(rd'.calls = rd.calls + 1 /\ ~req.io)
          => (/\ rd'.pc = "idle" /\ rd'.ret = -1 /\ rd'.illegal
              /\ req' = req /\ eng' = eng)]_vars
    /\ [][(wr'.calls = wr.calls + 1 /\ (~req.io \/ ~req.io_send))
          => (/\ wr'.pc = "idle" /\ wr'.ret = -1 /\ wr'.illegal
              /\ req' = req /\ eng' = eng)]_vars
    /\ [][(last' # last /\ last'.op = "io_finish" /\ ~req.io)
          => (/\ last'.rc = -1 /\ last'.err = "IllegalParams"
              /\ req' = req /\ eng' = eng)]_vars
    /\ [][(last' # last /\ last'.op = "set_io" /\ req.io)
          => (/\ last'.rc = -1 /\ last'.err = "IllegalParams"
              /\ req' = req /\ eng' = eng)]_vars

(* C17 witness: a streaming GET request, started, with body bytes waiting  *)
(* in io_recv, on which io_write and then a second set_io were refused.    *)
C17_Witness ==
    /\ req.live /\ req.io /\ ~req.io_send
    /\ app.pc = "started"
    /\ Len(req.io_recv) > 0
    /\ wr.calls > 0 /\ wr.illegal
    /\ last.op = "set_io" /\ last.pre = req /\ last.rc = -1


-----------------------------------------------------------------------------
(* C18: keepalive(idle, interval) with idle > 0 and interval > 0 sets      *)
(* keep_alive_timeout to idle and the three TCP keepalive options of the   *)
(* handle and nothing else; any other call leaves the request as it was.   *)
(* keep_alive_timeout is 0 in a new request, changes in no other way and   *)
(* is never negative.                                                      *)
C18_KeepaliveOnlyWhenBothPositive ==
    /\ [](req.live => req.keep_alive_timeout >= 0)
    /\ [][(last' # last /\ last'.op = "set_keepalive")
          => IF last'.arg[1] > 0 /\ last'.arg[2] > 0
             THEN req' = [req EXCEPT
                            !.keep_alive_timeout = last'.arg[1],
                            !.tcp_keepalive =
                               <<1, last'.arg[1], last'.arg[2]>>]
             ELSE req' = req]_vars
    /\ [][(~req.live /\ req'.live)
          => (req'.keep_alive_timeout = 0 /\ req'.tcp_keepalive = <<>>)]_vars
    /\ [][(req.live /\ req'.live
           /\ \/ req'.keep_alive_timeout # req.keep_alive_timeout
              \/ req'.tcp_keepalive # req.tcp_keepalive)
          => (/\ last'.op = "set_keepalive"
              /\ last'.arg[1] > 0 /\ last'.arg[2] > 0)]_vars

(* C18 witness: keepalive(12, 1) took effect and a later call with a       *)
(* negative interval left it in place.                                     *)
C18_Witness ==
    /\ req.live
    /\ last.op = "set_keepalive" /\ last.arg = <<5, -1>>
    /\ req.keep_alive_timeout = 12
    /\ req.tcp_keepalive = <<1, 12, 1>>


-----------------------------------------------------------------------------
(* C19 (as claimed): the request pool of the environment holds one object  *)
(* for the live request and none otherwise: a new that failed has given    *)
(* back what it took, and so has delete.                                   *)
C19_PoolHoldsLiveRequestsOnly ==
    env.pool = IF req.live THEN 1 ELSE 0


-----------------------------------------------------------------------------
(* test/unit/fiber.cc: fiber_wait_on_deadline_test. The fiber library is   *)
(* cooperative: one fiber runs at a time, up to its next yield, and no     *)
(* time passes while a fiber is ready or a timer has expired.              *)

MaxRounds == 3      \* fibers the test makes, one after the other
MaxDeadline == 3    \* longest deadline of a wait, in ticks
SLEEP_TICKS == 1    \* fiber_sleep(0.001) of cancel_f

(* noop_f: returns at once. *)
noop_f(f) == [f EXCEPT !.st = "dead", !.timer = NoTimer]

(* cancel_f: sleeps and tests for cancellation, for ever; the test for     *)
(* cancellation ends a cancelled fiber.                                    *)
cancel_f_once(f) ==
    IF f.pc = "entry"
    THEN [f EXCEPT !.st = "sleeping", !.pc = "slept", !.timer = SLEEP_TICKS]
    ELSE [f EXCEPT !.st = "dead", !.timer = NoTimer]
cancel_f(f) ==
    IF f.pc = "slept" /\ f.cancelled
    THEN [f EXCEPT !.st = "dead", !.timer = NoTimer]
    ELSE [f EXCEPT !.st = "sleeping", !.pc = "slept", !.timer = SLEEP_TICKS]

(* cancel_dead_f: raises an exception at once, which ends the fiber. *)
cancel_dead_f(f) == [f EXCEPT !.st = "dead", !.timer = NoTimer]

FiberBodies == {"noop_f", "cancel_f"}
RunBody(f) ==
    IF f.body = "noop_f" THEN noop_f(f)
    ELSE IF f.body = "cancel_dead_f" THEN cancel_dead_f(f)
    ELSE cancel_f(f)

(* fiber_cancel: the flag is set and a fiber that is not dead is woken. *)
fiber_cancel(f) ==
    IF f.st = "dead" THEN [f EXCEPT !.cancelled = TRUE]
    ELSE [f EXCEPT !.cancelled = TRUE, !.st = "ready", !.timer = NoTimer]

(* fiber_wakeup: a fiber that is neither dead nor ready already is made    *)
(* ready.                                                                  *)
fiber_wakeup_dead(f) == [f EXCEPT !.st = "ready", !.timer = NoTimer]
fiber_wakeup(f) ==
    IF f.st \in {"dead", "ready"} THEN f
    ELSE [f EXCEPT !.st = "ready", !.timer = NoTimer]

(* fiber_join from its test of the fiber on: a dead fiber is recycled and  *)
(* join returns; else the caller yields until the fiber wakes it.          *)
fiber_join(x) ==
    IF x.f.st = "dead"
    THEN [x EXCEPT !.pc = "run", !.ready = FALSE, !.round = @ + 1,
                   !.pokes = 0, !.f = FibInit.f, !.obs.joined = TRUE]
    ELSE [x EXCEPT !.pc = "join", !.ready = FALSE, !.waited = TRUE]

(* The test up to the yield of fiber_wait_on_deadline: fiber_new_xc,       *)
(* fiber_set_joinable, fiber_wakeup, and the wait with its deadline.       *)
WaitOnDeadline(body, d) ==
    /\ fib.pc = "run"
    /\ fib.round < MaxRounds
    /\ fib' = [fib EXCEPT !.pc = "wait", !.ready = FALSE, !.timer = d,
                          !.timed_out = FALSE, !.waited = FALSE,
                          !.f = [st |-> "ready", body |-> body,
                                 pc |-> "entry", timer |-> NoTimer,
                                 cancelled |-> FALSE, runs |-> 0]]
    /\ UNCHANGED httpcVars

(* The scheduler runs the fiber the test made, up to its next yield; a     *)
(* fiber that ends wakes the fiber waiting for it.                         *)
FiberRun ==
    /\ fib.pc \in {"wait", "join", "yield"}
    /\ fib.f.st = "ready"
    /\ LET g == RunBody(fib.f)
       IN  fib' = [fib EXCEPT
                     !.f = [g EXCEPT !.runs = IF fib.f.pc = "entry"
                                              THEN @ + 1 ELSE @],
                     !.ready = IF g.st = "dead" THEN TRUE ELSE @]
    /\ UNCHANGED httpcVars

(* The timer of fiber_sleep fires: the sleeping fiber is ready. *)
FiberTimer ==
    /\ fib.f.st = "sleeping"
    /\ fib.f.timer = 0
    /\ fib' = [fib EXCEPT !.f.st = "ready", !.f.timer = NoTimer]
    /\ UNCHANGED httpcVars

(* The timer of fiber_wait_on_deadline fires: the deadline is exceeded and *)
(* the waiting fiber is woken.                                             *)
WaitTimer ==
    /\ fib.pc = "wait"
    /\ fib.timer = 0
    /\ fib' = [fib EXCEPT !.timer = NoTimer, !.timed_out = TRUE,
                          !.ready = TRUE]
    /\ UNCHANGED httpcVars

(* A tick passes: nothing is ready to run and no timer has expired. *)
Tick ==
    /\ fib.pc \in {"wait", "join"}
    /\ ~fib.ready
    /\ fib.f.st # "ready"
    /\ fib.timer # 0 /\ fib.f.timer # 0
    /\ fib.timer > 0 \/ fib.f.timer > 0
    /\ fib' = [fib EXCEPT
                 !.timer = IF @ > 0 THEN @ - 1 ELSE @,
                 !.f.timer = IF @ > 0 THEN @ - 1 ELSE @]
    /\ UNCHANGED httpcVars

(* fiber_wait_on_deadline returns to the test, which looks at the result   *)
(* and at fiber_is_dead, cancels a fiber whose wait exceeded the deadline  *)
(* and joins the fiber.                                                    *)
WaitReturn ==
    /\ fib.pc = "wait"
    /\ fib.ready
    /\ LET exceeded == fib.timed_out
           x == [fib EXCEPT
                   !.timer = NoTimer,
                   !.obs = [body |-> fib.f.body, exceeded |-> exceeded,
                            dead |-> fib.f.st = "dead", joined |-> FALSE],
                   !.f = IF exceeded THEN fiber_cancel(@) ELSE @]
       IN  fib' = fiber_join(x)
    /\ UNCHANGED httpcVars

(* fiber_join after its yield. *)
JoinResume ==
    /\ fib.pc = "join"
    /\ fib.ready
    /\ fib' = fiber_join(fib)
    /\ UNCHANGED httpcVars

NextFiber ==
    \/ \E body \in FiberBodies, d \in 1..MaxDeadline : WaitOnDeadline(body, d)
    \/ FiberRun
    \/ FiberTimer
    \/ WaitTimer
    \/ Tick
    \/ WaitReturn
    \/ JoinResume

(* The scheduler and the event loop go on as long as something can run. *)
SpecFiber == Init /\ [][NextFiber]_vars /\ WF_vars(NextFiber)

(* C20: fiber_wait_on_deadline reports the deadline exceeded exactly when  *)
(* the fiber waited for is not dead at its return: a noop_f fiber has      *)
(* finished before the deadline, the wait reports it not exceeded and the  *)
(* fiber is dead; a cancel_f fiber is still running when the deadline      *)
(* passes, the wait reports it exceeded and the fiber is not dead. A       *)
(* fiber_join that has to wait, which is the join of the fiber cancelled   *)
(* after an exceeded deadline, returns in the end.                         *)
C20_WaitOnDeadline ==
    /\ [](fib.obs.body # "none" =>
              /\ fib.obs.exceeded = ~fib.obs.dead
              /\ fib.obs.body = "noop_f" => ~fib.obs.exceeded
              /\ fib.obs.body = "cancel_f" => fib.obs.exceeded)
    /\ [](fib.pc = "join" =>
              fib.obs.exceeded /\ fib.f.cancelled /\ fib.f.st # "none")
    /\ (fib.pc = "join") ~> (fib.pc = "run" /\ fib.obs.joined)

(* C20 witness: a wait for a noop_f fiber returned and the fiber was       *)
(* joined, then a wait for a cancel_f fiber exceeded its deadline of one   *)
(* tick, and the fiber was cancelled and joined.                           *)
C20_Witness ==
    /\ fib.round = 2
    /\ fib.pc = "run"
    /\ fib.obs = [body |-> "cancel_f", exceeded |-> TRUE, dead |-> FALSE,
                  joined |-> TRUE]


-----------------------------------------------------------------------------
(* test/unit/fiber.cc: fiber_join_test and fiber_wakeup_dead_test, the     *)
(* parts that cancel, wake and join a fiber.                               *)

MaxPokes == 3       \* fiber_cancel and fiber_wakeup calls on one fiber

(* The test makes a joinable fiber and lets it run: fiber_new_xc,          *)
(* fiber_set_joinable, and fiber_start or fiber_wakeup followed by         *)
(* fiber_reschedule or fiber_sleep(0); the test's fiber goes on when the   *)
(* new fiber has yielded or ended.                                         *)
StartFiber(body) ==
    /\ fib.pc = "run"
    /\ fib.f.st = "none"
    /\ fib.round < MaxRounds
    /\ fib' = [fib EXCEPT !.pc = "yield", !.ready = TRUE, !.pokes = 0,
                          !.waited = FALSE,
                          !.f = [st |-> "ready", body |-> body,
                                 pc |-> "entry", timer |-> NoTimer,
                                 cancelled |-> FALSE, runs |-> 0]]
    /\ UNCHANGED httpcVars

(* The test's fiber runs again after its yield, behind the fiber it made. *)
YieldResume ==
    /\ fib.pc = "yield"
    /\ fib.ready
    /\ fib.f.st # "ready"
    /\ fib' = [fib EXCEPT !.pc = "run", !.ready = FALSE]
    /\ UNCHANGED httpcVars

(* The test calls fiber_cancel or fiber_wakeup on the fiber; neither       *)
(* yields.                                                                 *)
Poke(op) ==
    /\ fib.pc = "run"
    /\ fib.f.st # "none"
    /\ fib.pokes < MaxPokes
    /\ fib' = [fib EXCEPT !.pokes = @ + 1,
                          !.f = IF op = "cancel" THEN fiber_cancel(@)
                                ELSE fiber_wakeup(@)]
    /\ UNCHANGED httpcVars

(* The test joins the fiber: fiber_join on a fiber that has ended,         *)
(* fiber_cancel and fiber_join on one that has not.                        *)
Join ==
    /\ fib.pc = "run"
    /\ fib.f.st # "none"
    /\ fib' = fiber_join([fib EXCEPT !.f = IF @.st = "dead" THEN @
                                           ELSE fiber_cancel(@)])
    /\ UNCHANGED httpcVars

NextDead ==
    \/ \E body \in {"noop_f", "cancel_dead_f", "cancel_f"} : StartFiber(body)
    \/ YieldResume
    \/ \E op \in {"cancel", "wakeup"} : Poke(op)
    \/ Join
    \/ JoinResume
    \/ FiberRun

SpecDead == Init /\ [][NextDead]_vars /\ WF_vars(NextDead)

-----------------------------------------------------------------------------
(* test/unit/fiber.cc: cord_cojoin_test. A cord is a thread with its own   *)
(* scheduler: its function runs at its own pace, beside the fibers of the  *)
(* test's cord.                                                            *)

(* fib_ok_f: sleeps, then returns 0. *)
fib_ok_f(c) ==
    IF c.st = "started" THEN [c EXCEPT !.st = "sleeping"]
    ELSE [c EXCEPT !.st = "done", !.ret = 0]

(* fib_err_f: sets an error and returns 42. *)
fib_err_f(c) == [c EXCEPT !.st = "done", !.ret = 42, !.diag = TRUE]

CordFunctions == {"fib_ok_f", "fib_err_f"}

(* cord_cojoin from its test of the cord on: while the function of the     *)
(* cord has not completed the caller yields; then the thread is joined     *)
(* and the result is 0 for a function that returned 0 and -1, with the     *)
(* error of the cord, for any other.                                       *)
cord_cojoin_once(co, i) ==
    IF co.cords[i].st # "done" /\ ~co.ready
    THEN [co EXCEPT !.pc = "cojoin", !.idx = i, !.ready = FALSE]
    ELSE [co EXCEPT
            !.pc = "joined", !.idx = i, !.ready = FALSE,
            !.res = Append(@, [rc |-> IF co.cords[i].ret = 0 THEN 0 ELSE -1,
                               diag |-> co.cords[i].diag,
                               done |-> co.cords[i].st = "done"])]
cord_cojoin(co, i) ==
    IF co.cords[i].st # "done"
    THEN [co EXCEPT !.pc = "cojoin", !.idx = i, !.ready = FALSE]
    ELSE [co EXCEPT
            !.pc = "joined", !.idx = i, !.ready = FALSE,
            !.res = Append(@, [rc |-> IF co.cords[i].ret = 0 THEN 0 ELSE -1,
                               diag |-> co.cords[i].diag,
                               done |-> co.cords[i].st = "done"])]

(* The test up to the yield of its first cord_cojoin: two cord_costart,    *)
(* the waker fiber made and woken, cord_cojoin of the first cord.          *)
CoStart(fn1, fn2) ==
    /\ fib.co.pc = "run"
    /\ fib.co.idx = 0
    /\ fib' = [fib EXCEPT !.co =
                 cord_cojoin(
                    [fib.co EXCEPT
                       !.cords = <<[CordInit EXCEPT !.st = "started",
                                                    !.fn = fn1],
                                   [CordInit EXCEPT !.st = "started",
                                                    !.fn = fn2]>>,
                       !.waker = "ready"], 1)]
    /\ UNCHANGED httpcVars

(* The thread of cord i runs its function up to its next blocking call or  *)
(* to its end; the end of the function wakes the fiber that joins the      *)
(* cord.                                                                   *)
CordRun(i) ==
    /\ fib.co.cords[i].st \in {"started", "sleeping"}
    /\ LET c == IF fib.co.cords[i].fn = "fib_ok_f"
                THEN fib_ok_f(fib.co.cords[i])
                ELSE fib_err_f(fib.co.cords[i])
       IN  fib' = [fib EXCEPT
                     !.co.cords[i] = c,
                     !.co.ready = IF c.st = "done" /\ fib.co.pc = "cojoin"
                                     /\ fib.co.idx = i
                                  THEN TRUE ELSE @]
    /\ UNCHANGED httpcVars

(* waker_f: fiber_wakeup of the test's fiber, and the end of the waker. It *)
(* runs when the test's fiber has yielded.                                 *)
waker_f ==
    /\ fib.co.waker = "ready"
    /\ fib.co.pc = "cojoin"
    /\ fib' = [fib EXCEPT !.co.waker = "dead", !.co.ready = TRUE,
                          !.co.woken = @ + 1]
    /\ UNCHANGED httpcVars

(* cord_cojoin after its yield. *)
CojoinResume ==
    /\ fib.co.pc = "cojoin"
    /\ fib.co.ready
    /\ fib' = [fib EXCEPT !.co = cord_cojoin(@, @.idx)]
    /\ UNCHANGED httpcVars

(* The test after a cord_cojoin has returned: cord_cojoin of the second    *)
(* cord, or the end of the test.                                           *)
CoNext ==
    /\ fib.co.pc = "joined"
    /\ fib' = [fib EXCEPT !.co = IF @.idx = 1 THEN cord_cojoin(@, 2)
                                 ELSE [@ EXCEPT !.pc = "end"]]
    /\ UNCHANGED httpcVars

NextCojoin ==
    \/ \E fn1, fn2 \in CordFunctions : CoStart(fn1, fn2)
    \/ \E i \in 1..2 : CordRun(i)
    \/ waker_f
    \/ CojoinResume
    \/ CoNext

SpecCojoin == Init /\ [][NextCojoin]_vars

-----------------------------------------------------------------------------
(* C23: every call of the upload callback wakes the fibers waiting on      *)
(* io_send_cond. With send empty it leaves send alone and signals the end  *)
(* of the upload when io_send_closed is set and a pause when it is not;    *)
(* with send non-empty it hands over the first min(|send|, buffer size)    *)
(* bytes of send and removes exactly those, and signals neither.           *)
C23_UploadCallback ==
    [][(/\ req.live /\ req'.live
        /\ \/ hist'.wire # hist.wire
           \/ eng'.paused /\ ~eng.paused
           \/ eng'.eof /\ ~eng.eof)
       => /\ (wr.pc \in {"write_wait1", "write_wait2", "write_wait3"}
              /\ wr.wake = NoWake) => wr'.wake = "signal"
          /\ (app.pc = "start_wait" /\ req.io_headers_cond = "send"
              /\ app.wake = NoWake) => app'.wake = "signal"
          /\ IF req.send = <<>>
             THEN /\ req'.send = <<>>
                  /\ hist'.wire = hist.wire
                  /\ eng'.eof = req.io_send_closed
                  /\ eng'.paused = ~req.io_send_closed
             ELSE LET n == IF Len(req.send) < BufSize THEN Len(req.send)
                           ELSE BufSize
                  IN  /\ hist'.wire = hist.wire \o SubSeq(req.send, 1, n)
                      /\ req'.send = SubSeq(req.send, n + 1, Len(req.send))
                      /\ ~eng'.eof /\ ~eng'.paused]_vars

(* C23 witness: the callback handed over a body longer than its buffer in  *)
(* two calls, paused, and after the close signalled the end of the upload. *)
C23_Witness ==
    /\ req.live /\ req.io_send_closed /\ req.in_progress
    /\ eng.eof /\ eng.resumes > 0
    /\ Len(hist.wire) > BufSize
    /\ req.send = <<>>


-----------------------------------------------------------------------------
(* Pause and resume of the upload. The engine calls the upload callback of *)
(* a transfer that is neither paused nor at its end, and the scheduler     *)
(* runs a writer that has been woken; nothing is assumed about the clock,  *)
(* the callers or the end of the transfer.                                 *)

NextResume ==
    \/ New("POST", TRUE, 1)
    \/ SetIo("POST")
    \/ Start(TRUE)
    \/ StartResume(TRUE, FALSE)
    \/ AppTimeout
    \/ EngRead
    \/ EngineDone("CURLE_OK", 200)
    \/ \E len \in PayloadLens, tmo \in BOOLEAN : IoWrite(len, tmo)
    \/ WriteResume3
    \/ WrTimeout
    \/ Finish(TRUE, FALSE)
    \/ FinishResume(TRUE, FALSE)
    \/ Delete

SpecResume ==
    Init /\ [][NextResume]_vars /\ WF_vars(EngRead) /\ WF_vars(WriteResume3)

InSeq(b, q) == \E i \in 1..Len(q) : q[i] = b

(* The engine no longer drives the handle: the transfer is done or the     *)
(* handle was taken out of the multi handle, or the request is gone.       *)
TransferOver == ~req.live \/ ~req.in_progress \/ ~eng.added

(* An io_write call on an upload in progress and not closed, with send     *)
(* empty, stores its payload (or sets io_send_closed for len = 0) and      *)
(* resumes the engine, and nothing else resumes it.                        *)
ResumeAfterStore ==
    /\ [][(/\ wr'.calls = wr.calls + 1
           /\ req.io /\ req.io_send /\ req.in_progress
           /\ ~req.io_send_closed /\ req.send = <<>>)
          => eng'.resumes = eng.resumes + 1]_vars
    /\ [][(req.live /\ req'.live /\ eng'.resumes = eng.resumes + 1)
          => (/\ ~eng'.paused
              /\ req.in_progress /\ ~req.io_send_closed /\ req.send = <<>>
              /\ wr'.pc = "write_wait3"
              /\ IF Len(wr'.payload) > 0
                 THEN req'.send = wr'.payload /\ ~req'.io_send_closed
                 ELSE req'.send = <<>> /\ req'.io_send_closed)]_vars

(* A closed upload in progress gets its end signalled by the callback. *)
CloseIsSeen ==
    (req.live /\ req.io_send /\ req.io_send_closed /\ req.in_progress)
        ~> (eng.eof \/ TransferOver)

(* C24 (as claimed): io_write stores, then resumes, and the callback       *)
(* called after that finds what was stored: every payload byte put into    *)
(* send is handed to the engine, and a close is signalled to it, unless    *)
(* the transfer ends first.                                                *)
C24_ResumedCallbackSeesData ==
    /\ ResumeAfterStore
    /\ CloseIsSeen
    /\ \A b \in 1..BodyBase :
          (req.live /\ InSeq(b, req.send))
             ~> (TransferOver \/ InSeq(b, hist.wire))

(* What the code does guarantee: a payload byte stored in send is handed   *)
(* to the engine, or is dropped by its own io_write call when the wait at  *)
(* the end of that call is over before the callback has taken it.          *)
StoredDataSeenOrDropped ==
    /\ ResumeAfterStore
    /\ CloseIsSeen
    /\ \A b \in 1..BodyBase :
          (req.live /\ InSeq(b, req.send))
             ~> (\/ TransferOver
                 \/ InSeq(b, hist.wire)
                 \/ b \in hist.rejected /\ req.send = <<>>)


-----------------------------------------------------------------------------
(* The copy of httpc_request_io_read.                                      *)

(* The step is an io_read call, or the end of one woken by io_recv_cond,   *)
(* that gets past the wait loop with at least one byte buffered.           *)
ReadCopies ==
    /\ req.live /\ req'.live /\ req.io
    /\ Len(req.io_recv) + Len(req.recv) > 0
    /\ rd'.pc = "idle"
    /\ \/ rd'.calls = rd.calls + 1
       \/ rd.pc = "read_wait" /\ rd.wake = "signal"

(* C25: an io_read call that finds at least one byte buffered returns      *)
(* min(len, |io_recv| + |recv|) bytes, the head of io_recv followed by     *)
(* recv; with len <= |io_recv| it leaves recv as it is and takes len bytes *)
(* off io_recv; else recv is empty afterwards and io_recv holds the part   *)
(* of recv that was not returned.                                          *)
C25_ReadTakesIoRecvThenRecv ==
    [][ReadCopies =>
        LET buffered == req.io_recv \o req.recv
            n == Min(rd'.len, Len(buffered))
        IN  /\ rd'.ret = n
            /\ hist'.readOut = hist.readOut \o SubSeq(buffered, 1, n)
            /\ IF rd'.len <= Len(req.io_recv)
               THEN /\ req'.recv = req.recv
                    /\ req'.io_recv =
                           SubSeq(req.io_recv, n + 1, Len(req.io_recv))
               ELSE /\ req'.recv = <<>>
                    /\ req'.io_recv = SubSeq(buffered, n + 1, Len(buffered))
       ]_vars

(* C25 witness: the last io_read call returned one byte of io_recv and one *)
(* of recv, and io_recv now holds the byte of recv it did not return.      *)
C25_Witness ==
    /\ req.live /\ req.io
    /\ rd.pc = "idle" /\ rd.len = 2 /\ rd.ret = 2 /\ rd.fromIo = 1
    /\ hist.readOut = Bytes(0, 3)
    /\ req.io_recv = <<4>>
    /\ req.recv = <<>>


-----------------------------------------------------------------------------
(* The return of io_write after it has resumed the engine.                 *)

(* C26: an io_write call that stored its payload and resumed the engine    *)
(* returns with send empty: len if the engine has taken the whole payload, *)
(* else 0, with what was left in send dropped; a byte of an io_write       *)
(* payload is in send only while its call is waiting after the resume.     *)
C26_SendEmptyAfterWrite ==
    /\ [][(req.live /\ req'.live
           /\ wr.pc = "write_wait3" /\ wr'.pc = "idle")
          => (/\ req'.send = <<>>
              /\ IF req.send = <<>>
                 THEN wr'.ret = Len(wr.payload)
                 ELSE /\ wr'.ret = 0
                      /\ \A i \in 1..Len(req.send) :
                             req.send[i] \in hist'.rejected)]_vars
    /\ [](req.live =>
            \A b \in 1..BodyBase :
                InSeq(b, req.send)
                    => (wr.pc = "write_wait3" /\ InSeq(b, wr.payload)))

(* C26 witness: the engine took the head of a payload, the wait of the     *)
(* call ended with the rest still in send, and the call has returned 0     *)
(* with send empty while the transfer goes on.                             *)
C26_Witness ==
    /\ req.live /\ req.in_progress
    /\ wr.pc = "idle" /\ wr.ret = 0
    /\ Len(wr.payload) = MaxPayload
    /\ InSeq(wr.payload[1], hist.wire)
    /\ wr.payload[MaxPayload] \in hist.rejected
    /\ ~InSeq(wr.payload[MaxPayload], hist.wire)
    /\ req.send = <<>>


-----------------------------------------------------------------------------
(* The outcome counters against the count of requests started.             *)

(* C27 (as claimed): in every state the outcome counters together do not   *)
(* exceed total: no request is counted in an outcome counter twice.        *)
C27_OutcomesAtMostTotal ==
    env.stat.http_200 + env.stat.http_other + env.stat.failed
        <= env.stat.total


-----------------------------------------------------------------------------
(* The redirect count a request keeps.                                     *)

(* The step is a call of the header callback. *)
HeaderCallback == req.live /\ req'.live /\ hist'.hdrLog # hist.hdrLog

(* C28: redirect_count never decreases; a header callback leaves it equal  *)
(* to the redirect count the engine reports at that callback, and a        *)
(* callback that finds the engine's count larger finds it larger by one,   *)
(* as the callback asserts.                                                *)
C28_RedirectCountFollowsEngine ==
    /\ [][(req.live /\ req'.live)
          => req'.redirect_count >= req.redirect_count]_vars
    /\ [][HeaderCallback
          => (/\ req'.redirect_count = eng.redirect
              /\ eng.redirect > req.redirect_count
                    => eng.redirect = req.redirect_count + 1)]_vars

(* C28 witness: the engine has followed as many redirects as it may, the   *)
(* header callback has run at every redirect count on the way, and         *)
(* redirect_count has followed.                                            *)
C28_Witness ==
    /\ req.live
    /\ eng.redirect = MaxRedirects
    /\ req.redirect_count = MaxRedirects
    /\ \A h \in 0..MaxRedirects :
          \E i \in 1..Len(hist.hdrLog) : hist.hdrLog[i].hop = h

=============================================================================
